---- MODULE Spec2Model ----
(***************************************************************************)
(* State-machine model of one call of the voice orchestrator: the call     *)
(* registry and session (src/src/orchestrator/callmanager.js), the         *)
(* per-call pipeline (src/src/orchestrator/pipeline.js), the status        *)
(* webhook (src/src/twilio/twiml.js) and the LLM realtime client           *)
(* (src/unnamed/part_004, the second version in that file).                *)
(*                                                                         *)
(* A JavaScript handler runs to its next await without interruption; one   *)
(* action of the model is one such run, together with the promise          *)
(* continuations (microtasks) it schedules.  The handlers are written as   *)
(* functions from a world record (the variables) to a world record.        *)
(***************************************************************************)
EXTENDS Integers, Sequences, FiniteSets, TLC

\* --------------------------------------------------------------- constants
\* pipeline.js
VAD_BATCH_CHUNKS == 10
INTERRUPT_THRESHOLD == 1
PRE_ROLL_BATCHES == 2
SMART_TURN_STOP_MS == 3000

\* ------------------------------------------------------------------ state
VARIABLES
    lim,       \* how many of each outside event the run admits, never changed
    cfg,       \* assistantConfig: the flags of the call, never changed
    session,   \* the CallSession object: its fields
    sessions,  \* CallManager.sessions: the call identifiers registered
    client,    \* the OpenAIRealtimeClient object: its fields
    proc,      \* positions of the suspended async functions of the call
    net,       \* the sockets and the requests in flight, seen from the call
    obs        \* history: what the call has done to the outside world

vars == <<lim, cfg, session, sessions, client, proc, net, obs>>

CallSid == "CA1"

World == [lim |-> lim, cfg |-> cfg, session |-> session, sessions |-> sessions, client |-> client,
          proc |-> proc, net |-> net, obs |-> obs]

\* The next state is the world w.
Becomes(w) ==
    /\ lim' = w.lim
    /\ cfg' = w.cfg
    /\ session' = w.session
    /\ sessions' = w.sessions
    /\ client' = w.client
    /\ proc' = w.proc
    /\ net' = w.net
    /\ obs' = w.obs

\* ------------------------------------------------------- small helpers
Min(S) == CHOOSE x \in S : \A y \in S : x <= y

\* ------------------------------------------------------------- CallSession
\* CallSession.clearSilenceTimer
ClearSilenceTimer(w) == [w EXCEPT !.session.silenceTimer = FALSE]

\* CallSession.startSilenceTimer: clears, then arms.
StartSilenceTimer(w) ==
    [w EXCEPT !.session.silenceTimer = TRUE, !.obs.armed = @ \cup {"silence"}]

\* A startMaxDurationTimer that sets no timer (faulty variant).
StartMaxDurationTimerNever(w) == w

\* CallSession.startMaxDurationTimer
StartMaxDurationTimer(w) ==
    [w EXCEPT !.session.maxDurationTimer = TRUE, !.obs.armed = @ \cup {"max"}]

\* CallSession.clearAllTimers
ClearAllTimers(w) ==
    [ClearSilenceTimer(w) EXCEPT !.session.maxDurationTimer = FALSE]

\* CallSession.end
SessionEnd(w) == [ClearAllTimers(w) EXCEPT !.session.status = "ended"]

\* ------------------------------------------------------------- CallManager
\* CallManager.remove: ends the session and deletes the entry, when the
\* entry is there.
RegistryRemove(w) ==
    IF CallSid \in w.sessions
    THEN [SessionEnd(w) EXCEPT !.sessions = @ \ {CallSid},
                                !.obs.nRemove = @ + 1]
    ELSE w

\* ---------------------------------------------------- OpenAIRealtimeClient
\* OpenAIRealtimeClient.disconnect
Disconnect(w) ==
    [w EXCEPT !.client.ws = IF @ = "none" THEN @ ELSE "closed",
              !.client.isConnected = FALSE,
              !.obs.nDisconnect = @ + 1]

\* ----------------------------------------------------------------- cleanup
\* A cleanup without its guard (faulty variant).
CleanupNeverSkips(w) == FALSE

\* The guard of cleanup: a session already ended is left alone.
CleanupSkips(w) == w.session.status = "ended"

\* cleanup(session, reason) up to its first await: past the guard the
\* session is ended, the LLM socket disconnected and the VAD reset issued.
CleanupStart(w, reason) ==
    LET w1 == [w EXCEPT !.obs.nCleanupCalls = @ + 1] IN
    IF CleanupSkips(w1)
    THEN w1
    ELSE [Disconnect(SessionEnd(w1)) EXCEPT !.proc.cleanupPc = "resetVAD",
                                            !.proc.cleanupReason = reason,
                                            !.obs.nVadReset = @ + 1]

\* postCallComplete: the completion payload is posted.
PostCallComplete(w, endReason) == [w EXCEPT !.obs.posts = Append(@, endReason)]

\* The VAD reset request settles (its failure is swallowed); cleanup goes on
\* to post the completion payload.
CleanupResetDone ==
    /\ proc.cleanupPc = "resetVAD"
    /\ Becomes([PostCallComplete(World, proc.cleanupReason)
                   EXCEPT !.proc.cleanupPc = "post"])

\* An async caller that awaits cleanup resumes when cleanup returns.
CallerResumes(pc) == IF pc = "cleanup" THEN "done" ELSE pc

\* The completion POST settles (its failure is swallowed); the session is
\* removed from the registry and cleanup returns to its caller.
CleanupPostDone ==
    /\ proc.cleanupPc = "post"
    /\ Becomes([RegistryRemove(World) EXCEPT !.proc.cleanupPc = "done",
                                             !.proc.endCallPc = CallerResumes(@),
                                             !.proc.transferPc = CallerResumes(@)])

\* ------------------------------------------------------ telephony socket
\* The stream identifier of the provider's 'start' message.
StreamSid == "MZ1"

\* The 'start' message of the telephony socket. The 'message' listener is
\* attached by initPipeline, which the connection handler calls once the
\* configuration fetch has settled; a message that arrives before that finds
\* no listener and is lost.
WsStart ==
    /\ net.wsState = "open"
    /\ ~net.startSeen
    /\ Becomes(IF proc.initPc = "new"
               THEN [World EXCEPT !.net.startSeen = TRUE]
               ELSE [World EXCEPT !.net.startSeen = TRUE,
                                  !.session.twilioStreamSid = StreamSid])

\* The 'stop' message of the telephony socket.
WsStop ==
    /\ proc.initPc # "new"
    /\ net.wsState = "open"
    /\ ~net.stopSeen
    /\ Becomes(CleanupStart([World EXCEPT !.net.stopSeen = TRUE], "stream_stopped"))

\* The 'error' event of the telephony socket; the socket closes afterwards.
WsError ==
    /\ proc.initPc # "new"
    /\ net.wsState = "open"
    /\ Becomes(CleanupStart([World EXCEPT !.net.wsState = "closing"], "ws_error"))

\* The 'close' event of the telephony socket.
WsClose ==
    /\ proc.initPc # "new"
    /\ net.wsState \in {"open", "closing"}
    /\ Becomes(CleanupStart([World EXCEPT !.net.wsState = "closed"], "ws_closed"))

\* ----------------------------------------------------------------- endCall
\* An endCall without its guard (faulty variant).
EndCallNeverSkips(w) == FALSE

\* The guard of endCall.
EndCallSkips(w) == w.session.status \in {"ending", "ended"}

\* endCall(session, reason) up to its await of the telephony hangup.
EndCallStart(w, reason) ==
    LET w1 == [w EXCEPT !.obs.nEndCalls = @ + 1] IN
    IF EndCallSkips(w1)
    THEN w1
    ELSE [w1 EXCEPT !.session.status = "ending",
                    !.proc.endCallPc = "hangup",
                    !.proc.endReason = reason,
                    !.obs.nHangup = @ + 1]

\* The silence hangup timer expires.
SilenceTimeout ==
    /\ session.silenceTimer
    /\ obs.nEndCalls < lim.endCalls
    /\ Becomes(EndCallStart(ClearSilenceTimer(World), "no_response"))

\* The max-call-duration timer expires.
MaxDurationTimeout ==
    /\ session.maxDurationTimer
    /\ obs.nEndCalls < lim.endCalls
    /\ Becomes(EndCallStart([World EXCEPT !.session.maxDurationTimer = FALSE],
                            "max_duration"))

\* Where endCall stands once its finally block has called cleanup.
AfterHangup(w) ==
    LET w1 == CleanupStart(w, w.proc.endReason) IN
    [w1 EXCEPT !.proc.endCallPc = IF CleanupSkips(w) THEN "done" ELSE "cleanup"]

\* An endCall that enters cleanup only after a hangup that succeeded (faulty
\* variant).
HangupDoneNoFinally(ok) ==
    /\ proc.endCallPc = "hangup"
    /\ Becomes(IF ok
               THEN AfterHangup(World)
               ELSE [World EXCEPT !.obs.hangupFailed = TRUE, !.proc.endCallPc = "done"])

\* The telephony hangup settles, fulfilled or rejected; the finally block
\* enters cleanup.
HangupDone(ok) ==
    /\ proc.endCallPc = "hangup"
    /\ Becomes(AfterHangup([World EXCEPT !.obs.hangupFailed = @ \/ ~ok]))

\* ---------------------------------------------------------- status webhook
\* POST /twilio/status: a terminal status removes a session that has not
\* ended from the registry.
StatusWebhook(terminal) ==
    /\ proc.initPc # "new"
    /\ obs.nWebhooks < lim.webhooks
    /\ LET w1 == [World EXCEPT !.obs.nWebhooks = @ + 1] IN
       Becomes(IF terminal /\ CallSid \in w1.sessions /\ w1.session.status # "ended"
               THEN RegistryRemove(w1)
               ELSE w1)

\* ---------------------------------------------------------- TTS utterances
\* proc.utter[i] is the i-th text handed to the synthesis path, in the order
\* the texts were chained on ttsSentenceQueue or passed to speakToTwilio:
\*   st     "none" | "queued" (chained, not started) | "req" (speakToTwilio
\*          awaits the TTS response) | "stream" (data events) | "done"
\*   chain  the promise chain it was chained on (-1: speakToTwilio was
\*          called directly, outside the queue)
\*   kind   "sentence" | "tail" | "filler" | "first" | "transfer"
\*   epoch  interrupts that had run when it was enqueued
\*   chunks data events that delivered audio for it
NoUtter == [st |-> "none", chain |-> -1, kind |-> "none", epoch |-> 0, chunks |-> 0]

UtterIds(w) == DOMAIN w.proc.utter

NextUtter(w) == Cardinality({i \in UtterIds(w) : w.proc.utter[i].st # "none"}) + 1

CanAddUtter(w) == NextUtter(w) \in UtterIds(w)
FreeUtter(w) == Cardinality(UtterIds(w)) - (NextUtter(w) - 1)

\* speakToTwilio invocations that have not returned
Speaking(w) == {i \in UtterIds(w) : w.proc.utter[i].st \in {"req", "stream"}}

\* tasks chained on chain c that have not started
Queued(w, c) ==
    {i \in UtterIds(w) : w.proc.utter[i].st = "queued" /\ w.proc.utter[i].chain = c}

\* a task of chain c is running: the chain's tail promise is pending
ChainBusy(w, c) == \E i \in Speaking(w) : w.proc.utter[i].chain = c

\* The status test at the head of every queued task and in the data handler.
CallOver(w) == w.session.status \in {"ending", "ended"}

\* Utterance i was chained on the sentence queue before an interrupt that has
\* run since.
Outdated(w, i) ==
    w.proc.utter[i].chain >= 0 /\ w.obs.nInterrupts > w.proc.utter[i].epoch

\* speakToTwilio up to its await of the TTS response (the text is not blank).
SpeakStart(w, i) ==
    [ClearSilenceTimer(w) EXCEPT !.session.isAISpeaking = TRUE,
                                 !.proc.utter[i].st = "req",
                                 !.obs.lateSynth = IF Outdated(w, i) THEN @ \cup {i} ELSE @]

\* The queued task at the head of a chain: it returns at once when the call
\* is over, else it speaks its sentence.
TaskSkips(w) == CallOver(w)

\* The continuation of promise chain c: the tasks chained on it run in the
\* order they were chained, each when the one before has returned.
RECURSIVE AdvanceChain(_, _)
AdvanceChain(w, c) ==
    IF Queued(w, c) = {} \/ ChainBusy(w, c)
    THEN w
    ELSE LET i == Min(Queued(w, c)) IN
         IF TaskSkips(w)
         THEN AdvanceChain([w EXCEPT !.proc.utter[i].st = "done"], c)
         ELSE SpeakStart(w, i)

\* The text of a sentence or tail comes from the response the client holds
\* as current; it is text of a cancelled response when interruptAI has sent
\* response.cancel for that response.
OfCancelled(w, kind) ==
    kind \in {"sentence", "tail"} /\ w.client.currentResponseId \in w.obs.cancelled

\* session.ttsSentenceQueue = session.ttsSentenceQueue.then(task): the task is
\* chained on the current chain; it starts in a microtask when the chain is
\* idle.
Chained(w, kind) ==
    [w EXCEPT !.proc.utter[NextUtter(w)] =
                 [st |-> "queued", chain |-> w.session.ttsSentenceQueue,
                  kind |-> kind, epoch |-> w.obs.nInterrupts, chunks |-> 0],
              !.obs.lateText = IF OfCancelled(w, kind) THEN @ \cup {NextUtter(w)} ELSE @]

Enqueue(w, kind) == AdvanceChain(Chained(w, kind), w.session.ttsSentenceQueue)

\* speakToTwilio called outside the queue (first message, transfer message).
SpeakDirect(w, kind) ==
    LET i == NextUtter(w) IN
    SpeakStart([w EXCEPT !.proc.utter[i] =
                   [st |-> "req", chain |-> -1, kind |-> kind,
                    epoch |-> w.obs.nInterrupts, chunks |-> 0]], i)

\* ------------------------------------------------------------- interruptAI
\* OpenAIRealtimeClient.cancelResponse: the response in flight is cancelled.
CancelResponse(w) ==
    IF w.client.currentResponseId # 0
    THEN [w EXCEPT !.obs.cancelled = @ \cup {w.client.currentResponseId}]
    ELSE w

\* interruptAI: the response is cancelled, the provider's buffer cleared, and
\* session.ttsSentenceQueue replaced by a fresh resolved promise (a new chain).
InterruptAI(w) ==
    [CancelResponse(w) EXCEPT !.session.isAISpeaking = FALSE,
                              !.session.ttsBuffer = "",
                              !.session.preRollBuffer = <<>>,
                              !.session.ttsSentenceQueue = @ + 1,
                              !.obs.nInterrupts = @ + 1]

\* ------------------------------------------------------------ initPipeline
\* The configuration fetch of the connection handler settles, the session is
\* created and initPipeline runs up to its await of openaiClient.connect():
\* the socket handlers are attached and the session is active.
InitPipeline ==
    /\ proc.initPc = "new"
    /\ Becomes([World EXCEPT !.session.status = "active",
                             !.session.ttsBuffer = "",
                             !.client.ws = "connecting",
                             !.proc.conn.timer = TRUE,
                             !.proc.initPc = "connect"])

\* The end of initPipeline: the frames queued before pipelineReady was set
\* are drained (DrainMediaQueue is defined with the incoming audio).
RECURSIVE DrainMediaQueue(_)
InitPipelineEnd(w) == [DrainMediaQueue(w) EXCEPT !.proc.initPc = "ready"]

\* initPipeline after the connect: the LLM and session listeners are
\* registered, both timers started, and the first message spoken.
PipelineReady(w) ==
    LET w1 == StartSilenceTimer(StartMaxDurationTimer(
                  [w EXCEPT !.client.ws = "open", !.client.isConnected = TRUE])) IN
    IF w1.cfg.first_message
    THEN [SpeakDirect(w1, "first") EXCEPT !.proc.initPc = "first"]
    ELSE InitPipelineEnd(w1)

\* The LLM and session listeners of initPipeline are registered.
Listening(w) == w.proc.initPc \in {"first", "ready"}

\* connect() rejects: initPipeline throws and its caller closes the telephony
\* socket.
ConnectRejected(w) ==
    [w EXCEPT !.proc.initPc = "failed",
              !.net.wsState = IF @ = "open" THEN "closing" ELSE @]

\* An event of the connecting socket, or the connect timer, is handled: the
\* first one of a connect is recorded.
SocketEvent(w, e) ==
    [w EXCEPT !.obs.firstEvent = IF @ = "none" THEN e ELSE @]

\* settle(fn, val) of connect(): the first call clears the connect timer and
\* resolves or rejects the promise, on which initPipeline resumes; later
\* calls return at once.
Settle(w, by, how) ==
    IF w.proc.conn.settled
    THEN w
    ELSE LET w1 == [w EXCEPT !.proc.conn = [settled |-> TRUE, timer |-> FALSE, result |-> how],
                             !.obs.nSettle = @ + 1,
                             !.obs.settledBy = by] IN
         IF how = "resolved" THEN PipelineReady(w1) ELSE ConnectRejected(w1)

\* The 'open' listener of the LLM socket.
ConnectOk ==
    /\ proc.initPc = "connect"
    /\ client.ws = "connecting"
    /\ Becomes(Settle(SocketEvent(World, "open"), "open", "resolved"))

\* The 'close' listener of the LLM socket, the socket not having opened:
\* before connect() has settled, or after the timeout or an error.
ConnectFail ==
    /\ \/ proc.initPc = "connect"
       \/ proc.initPc = "failed" /\ client.ws \in {"errored", "terminated"}
    /\ Becomes(Settle([SocketEvent(World, "close") EXCEPT !.client.ws = "closed",
                                                         !.client.isConnected = FALSE],
                      "close", "rejected"))

\* The 'error' listener of the LLM socket: it emits 'error' on the client,
\* which throws while the client has no 'error' listener (initPipeline adds
\* one after connect() has resolved), and only then settles.
SocketError ==
    /\ client.ws \in {"connecting", "terminated", "open"}
    /\ LET w1 == SocketEvent(World, "error") IN
       Becomes(IF Listening(w1)
               THEN Settle(w1, "error", "rejected")
               ELSE [w1 EXCEPT !.obs.uncaught = TRUE, !.client.ws = "errored"])

\* The connect timer fires: the socket, when the client still holds it, is
\* terminated, and connect() rejected.
ConnectTimeout ==
    /\ proc.conn.timer
    /\ LET w1 == SocketEvent(World, "timeout")
           w2 == IF w1.client.ws \in {"connecting", "errored"}
                 THEN [w1 EXCEPT !.obs.terminated = TRUE,
                                 !.client.ws = IF @ = "connecting" THEN "terminated" ELSE @]
                 ELSE w1 IN
       Becomes(Settle(w2, "timeout", "rejected"))

\* The pipelineReady flag of initPipeline: set before the first message is
\* spoken.
PipelineIsReady(w) == w.proc.initPc \in {"first", "ready"}

\* -------------------------------------------------------------- transfers
TransferReason(kind) ==
    IF kind = "number" THEN "transferred_to_number" ELSE "transferred_to_agent"

\* executeTransferToNumber / executeTransferToAgent up to the first await:
\* the transfer message is spoken when enabled, else the lookup (agent) or
\* the call update (number) is issued.
TransferNext(kind) == IF kind = "agent" THEN "lookup" ELSE "update"

TransferStartWith(w, kind, speaks) ==
    LET w1 == [w EXCEPT !.obs.nTransfers = @ + 1, !.proc.transferKind = kind] IN
    IF speaks
    THEN [SpeakDirect(w1, "transfer") EXCEPT !.proc.transferPc = "speak"]
    ELSE [w1 EXCEPT !.proc.transferPc = TransferNext(kind)]

\* The same for an assistant whose rules are summed up in two flags: the
\* rule is found (transfer_configured) and its message is to be spoken
\* (transfer_message).
TransferStart(w, kind) == TransferStartWith(w, kind, w.cfg.transfer_message)

\* GET /calls/{sid}/transfer-agent settles.
TransferLookupDone(ok) ==
    /\ proc.transferPc = "lookup"
    /\ Becomes([World EXCEPT !.proc.transferPc = IF ok THEN "update" ELSE "failed"])

\* Where the transfer stands once the call update has settled: fulfilled, it
\* enters cleanup; rejected, the error is logged and nothing else happens.
AfterTransferUpdate(w, ok) ==
    IF ok
    THEN [CleanupStart(w, TransferReason(w.proc.transferKind))
             EXCEPT !.proc.transferPc = IF CleanupSkips(w) THEN "done" ELSE "cleanup"]
    ELSE [w EXCEPT !.proc.transferPc = "failed"]

\* The telephony call update of a transfer settles.
TransferUpdateDone(ok) ==
    /\ proc.transferPc = "update"
    /\ Becomes(AfterTransferUpdate(World, ok))

\* ------------------------------------------------------------ speakToTwilio
\* speakToTwilio returns to its caller: the next task of its chain, the rest
\* of initPipeline, or the rest of the transfer.
SpeakReturn(w, i) ==
    LET u == w.proc.utter[i]
        w1 == [w EXCEPT !.proc.utter[i].st = "done"] IN
    CASE u.chain >= 0 -> AdvanceChain(w1, u.chain)
      [] u.kind = "first" -> InitPipelineEnd(w1)
      [] u.kind = "transfer" ->
            [w1 EXCEPT !.proc.transferPc = TransferNext(w1.proc.transferKind)]
      [] OTHER -> w1

\* The TTS request settles: fulfilled, the stream's handlers are attached;
\* rejected, ai-is-speaking is cleared and speakToTwilio returns.
TtsResponse(i, ok) ==
    /\ proc.utter[i].st = "req"
    /\ Becomes(IF ok
               THEN [World EXCEPT !.proc.utter[i].st = "stream"]
               ELSE SpeakReturn([World EXCEPT !.session.isAISpeaking = FALSE], i))

\* The data handler gives the stream up when the call is over or
\* ai-is-speaking has been cleared.
DataAborts(w) == CallOver(w) \/ ~w.session.isAISpeaking

\* A media frame of utterance i goes to the telephony socket (when the socket
\* is open); it is late when an interrupt ran after i was enqueued.
SendMedia(w, i) ==
    IF w.net.wsState = "open"
    THEN [w EXCEPT !.obs.media = IF @ # <<>> /\ @[Len(@)] = i THEN @ ELSE Append(@, i),
                   !.obs.lateMedia = IF Outdated(w, i) THEN @ \cup {i} ELSE @]
    ELSE w

\* A 'data' event of the TTS stream; frames is whether the bytes buffered so
\* far fill at least one 20 ms frame.
TtsData(i, frames) ==
    /\ proc.utter[i].st = "stream"
    /\ proc.utter[i].chunks < lim.chunks
    /\ Becomes(IF DataAborts(World)
               THEN SpeakReturn(World, i)
               ELSE LET w1 == [World EXCEPT !.proc.utter[i].chunks = @ + 1] IN
                    IF frames THEN SendMedia(w1, i) ELSE w1)

\* The ai_speech_end mark goes to the telephony socket, which echoes it.
SendMark(w) ==
    IF w.net.wsState = "open"
    THEN [w EXCEPT !.net.marks = @ + 1, !.obs.markAt = Len(w.obs.frames)]
    ELSE w

\* The 'end' event of the TTS stream: the remainder (when there is one) and
\* the mark are sent, and speakToTwilio returns.
TtsEnd(i, remainder) ==
    /\ proc.utter[i].st = "stream"
    /\ Becomes(SpeakReturn(SendMark(IF remainder THEN SendMedia(World, i) ELSE World), i))

\* The 10 s idle timer of the TTS stream fires: the stream is destroyed and
\* speakToTwilio returns.
TtsStall(i) ==
    /\ proc.utter[i].st = "stream"
    /\ Becomes(SpeakReturn(World, i))

\* The 'error' event of the TTS stream.
TtsError(i) ==
    /\ proc.utter[i].st = "stream"
    /\ Becomes(SpeakReturn([World EXCEPT !.session.isAISpeaking = FALSE], i))

\* The provider echoes an ai_speech_end mark.
MarkEcho ==
    /\ net.marks > 0
    /\ net.wsState = "open"
    /\ Becomes(StartSilenceTimer([World EXCEPT !.net.marks = @ - 1,
                                               !.session.isAISpeaking = FALSE]))

\* ------------------------------------------------------- LLM text events
\* The 'text_delta' listener; boundary is whether SENTENCE_RE matches the
\* buffer once the token is appended.
OnTextDelta(w, boundary) ==
    IF CallOver(w)
    THEN w
    ELSE IF boundary
         THEN Enqueue([w EXCEPT !.session.ttsBuffer = ""], "sentence")
         ELSE [w EXCEPT !.session.ttsBuffer = "text"]

\* A response.text.delta event of the LLM socket.
TextDelta(boundary) ==
    /\ Listening(World)
    /\ client.ws = "open"
    /\ boundary /\ ~CallOver(World) => CanAddUtter(World)
    /\ Becomes(OnTextDelta(World, boundary))

\* The 'text_done' listener: a non-blank remainder is enqueued.
OnTextDone(w) ==
    IF w.session.ttsBuffer = "" \/ CallOver(w)
    THEN w
    ELSE Enqueue([w EXCEPT !.session.ttsBuffer = ""], "tail")

\* A response.text.done event of the LLM socket.
TextDone ==
    /\ Listening(World)
    /\ client.ws = "open"
    /\ session.ttsBuffer # "" /\ ~CallOver(World) => CanAddUtter(World)
    /\ Becomes(OnTextDone(World))

\* The LLM opens a response.
ResponseCreated ==
    /\ client.ws = "open"
    /\ client.currentResponseId = 0
    /\ obs.nResponses < lim.responses
    /\ Becomes([World EXCEPT !.client.currentResponseId = obs.nResponses + 1,
                             !.obs.nResponses = @ + 1])

\* The LLM closes the response.
ResponseDone ==
    /\ client.ws = "open"
    /\ client.currentResponseId # 0
    /\ Becomes([World EXCEPT !.client.currentResponseId = 0])

\* The LLM socket closes on its own.
LlmClose ==
    /\ client.ws = "open"
    /\ Becomes([World EXCEPT !.client.ws = "closed", !.client.isConnected = FALSE])

\* --------------------------------------------------- LLM function calls
\* The argument documents are sequences of tokens: "{", member names, "}".
Members == {"reason", "q"}
NoPending == [has |-> FALSE, name |-> "", args |-> <<>>]
NoCall == [st |-> "none", name |-> "", doc |-> <<>>, pos |-> 0]

\* JSON.parse of an argument string: an object document parses to its set of
\* members, anything else throws.
JsonParse(toks) ==
    LET n == Len(toks)
        ok == /\ n >= 2
              /\ toks[1] = "{"
              /\ toks[n] = "}"
              /\ \A i \in 2..(n - 1) : toks[i] \in Members IN
    [ok |-> ok, value |-> IF ok THEN {toks[i] : i \in 2..(n - 1)} ELSE {}]

\* A single pending slot shared by every call (faulty variant).
PendingKeyOne(callId) == 1

\* The key of the pendingFunctionCalls map: the call_id of the event.
PendingKey(callId) == callId

\* _handleEvent, response.function_call_arguments.delta: the entry of the
\* call is created from the event when absent, and the delta appended.
OnArgumentsDelta(w, callId, name, delta) ==
    LET k == PendingKey(callId)
        e == IF w.client.pendingFunctionCalls[k].has
             THEN w.client.pendingFunctionCalls[k]
             ELSE [has |-> TRUE, name |-> name, args |-> <<>>] IN
    [w EXCEPT !.client.pendingFunctionCalls[k] = [e EXCEPT !.args = @ \o delta]]

\* The LLM streams the next argument delta of call c; with its first delta it
\* has chosen the tool and the document of the call.
ArgumentsDelta(c, name, doc) ==
    /\ client.ws = "open"
    /\ net.llm[c].st \in {"none", "streaming"}
    /\ net.llm[c].st = "none" => \A d \in 1..(c - 1) : net.llm[d].st # "none"
    /\ net.llm[c].st = "streaming" => name = net.llm[c].name /\ doc = net.llm[c].doc
    /\ net.llm[c].pos < Len(doc)
    /\ LET pos == net.llm[c].pos + 1 IN
       Becomes(OnArgumentsDelta(
           [World EXCEPT !.net.llm[c] = [st |-> "streaming", name |-> name,
                                         doc |-> doc, pos |-> pos]],
           c, name, <<doc[pos]>>))

\* sendFunctionResult: the output item goes out when the socket is open.
SendFunctionResult(w, callId) ==
    IF w.client.ws = "open" THEN [w EXCEPT !.obs.results = Append(@, callId)] ELSE w

\* execute, case end_call: the reason of the arguments, or 'completed'.
EndReasonOf(args) == IF "reason" \in args THEN "user_goodbye" ELSE "completed"

TransferKind(name) == IF name = "transfer_to_agent" THEN "agent" ELSE "number"

\* functions.execute up to its first await: the built-in tools act through
\* session events, a custom tool issues its HTTP request.
ExecuteFn(w, callId, name, args) ==
    CASE name = "end_call" ->
            [EndCallStart(w, EndReasonOf(args)) EXCEPT !.proc.fn[callId] = "result"]
      [] name \in {"transfer_to_number", "transfer_to_agent"} ->
            IF w.cfg.transfer_configured
            THEN [TransferStart(w, TransferKind(name)) EXCEPT !.proc.fn[callId] = "result"]
            ELSE [w EXCEPT !.proc.fn[callId] = "result"]
      [] OTHER -> [w EXCEPT !.proc.fn[callId] = "http"]

\* The filler branch of the 'function_call' listener.
FillerDue(w) ==
    w.cfg.enable_filler_phrases /\ ~w.session.isAISpeaking /\ w.session.status = "active"

\* The 'function_call' listener of initPipeline: the filler is chained, the
\* tool started, then the promise continuations run: the filler task, and
\* the result of a tool that did not wait.
OnFunctionCall(w, callId, name, args) ==
    LET c0 == w.session.ttsSentenceQueue
        w1 == IF FillerDue(w) THEN Chained(w, "filler") ELSE w
        w2 == ExecuteFn(w1, callId, name, args)
        w3 == AdvanceChain(w2, c0) IN
    IF w3.proc.fn[callId] = "result"
    THEN [SendFunctionResult(w3, callId) EXCEPT !.proc.fn[callId] = "done"]
    ELSE w3

\* The texts the listener hands to the synthesis path for a call of the tool.
UtterNeeded(w, name) ==
    (IF FillerDue(w) THEN 1 ELSE 0)
    + (IF /\ name \in {"transfer_to_number", "transfer_to_agent"}
          /\ w.cfg.transfer_configured /\ w.cfg.transfer_message
       THEN 1 ELSE 0)

\* emit('function_call', ...): the event is recorded and the listener runs.
EmitFunctionCall(w, callId, name, args) ==
    LET w1 == [w EXCEPT !.obs.events = Append(@, [call_id |-> callId, name |-> name,
                                                   args |-> args])] IN
    IF Listening(w1) THEN OnFunctionCall(w1, callId, name, args) ELSE w1

\* _handleEvent, response.function_call_arguments.done.
OnArgumentsDone(w, callId) ==
    LET k == PendingKey(callId)
        pending == w.client.pendingFunctionCalls[k] IN
    IF pending.has
    THEN LET w1 == [w EXCEPT !.client.pendingFunctionCalls[k] = NoPending]
             parsed == JsonParse(pending.args) IN
         IF parsed.ok THEN EmitFunctionCall(w1, callId, pending.name, parsed.value) ELSE w1
    ELSE w

\* The LLM ends the argument stream of call c.
ArgumentsDone(c) ==
    /\ client.ws = "open"
    /\ net.llm[c].st = "streaming"
    /\ net.llm[c].pos = Len(net.llm[c].doc)
    /\ FreeUtter(World) >= UtterNeeded(World, net.llm[c].name)
    /\ net.llm[c].name \in {"transfer_to_number", "transfer_to_agent"}
          => obs.nTransfers < lim.transfers /\ proc.transferPc \in {"idle", "done", "failed"}
    /\ Becomes(OnArgumentsDone([World EXCEPT !.net.llm[c].st = "done",
                                             !.obs.doneOrder = Append(@, c)], c))

\* The HTTP request of a custom tool settles (its failure becomes a result).
ToolHttpDone(c) ==
    /\ proc.fn[c] = "http"
    /\ Becomes([SendFunctionResult(World, c) EXCEPT !.proc.fn[c] = "done"])

\* ---------------------------------------------------- transfer_to_number
\* A string of the configuration or of the arguments is truthy: present and
\* not empty.
Truthy(v) == v \notin {"undefined", ""}

\* A find that takes the last rule of the list, whatever its number (faulty
\* variant).
FindLastRule(rules, phone) == Len(rules)

\* assistantConfig.transfer_to_number?.find(t => t.phone_number === phone):
\* the index of the first rule with the number, 0 when there is none.
FindRule(rules, phone) ==
    LET hits == {i \in DOMAIN rules : rules[i].phone_number = phone} IN
    IF hits = {} THEN 0 ELSE Min(hits)

\* The event functions.executeTransferToNumber emits for a rule.
TransferEvent(rule, args) ==
    [phone_number |-> args.phone_number,
     transfer_type |-> IF Truthy(rule.transfer_type) THEN rule.transfer_type
                       ELSE "conference",
     enable_client_message |-> rule.enable_client_message,
     transfer_message |-> rule.transfer_message,
     condition |-> args.condition]

\* transferData.enable_client_message && transferData.transfer_message
TransferSpeaks(ev) == ev.enable_client_message /\ Truthy(ev.transfer_message)

NoResult == [success |-> FALSE, phone_number |-> "undefined", error |-> "undefined"]

\* functions.executeTransferToNumber: without a rule for the number it
\* returns a failure; with one it emits the event, on which the listener of
\* initPipeline runs executeTransferToNumber of the pipeline up to its first
\* await, and returns a success.
ExecuteTransferToNumber(w, args) ==
    LET rules == w.cfg.transfer_to_number
        k == FindRule(rules, args.phone_number) IN
    IF k = 0
    THEN [w EXCEPT !.obs.toolResult =
                       [NoResult EXCEPT !.error = "Phone number not configured for transfer"]]
    ELSE LET ev == TransferEvent(rules[k], args) IN
         [TransferStartWith([w EXCEPT !.obs.transferEvents = Append(@, ev)],
                            "number", TransferSpeaks(ev))
             EXCEPT !.obs.toolResult =
                        [NoResult EXCEPT !.success = TRUE,
                                         !.phone_number = args.phone_number]]

\* The 'function_call' listener of initPipeline for a call c of
\* transfer_to_number with the arguments args.
TransferToNumberCall(c, args) ==
    /\ Listening(World)
    /\ client.ws = "open"
    /\ proc.fn[c] = "none"
    /\ obs.nTransfers < lim.transfers
    /\ proc.transferPc \in {"idle", "done", "failed"}
    /\ FreeUtter(World) >= 1 + (IF FillerDue(World) THEN 1 ELSE 0)
    /\ LET c0 == session.ttsSentenceQueue
           w0 == [World EXCEPT !.obs.toolArgs = args, !.obs.nToolCalls = @ + 1]
           w1 == IF FillerDue(w0) THEN Chained(w0, "filler") ELSE w0
           w2 == ExecuteTransferToNumber(w1, args)
           w3 == AdvanceChain(w2, c0) IN
       Becomes([SendFunctionResult(w3, c) EXCEPT !.proc.fn[c] = "done"])

\* ------------------------------------------------------- incoming audio
\* A batch is named by its number in production order; a buffer of audio is
\* the sequence of the batches it holds.
NoVad == [pc |-> "idle", batch |-> 0, audio |-> <<>>, after |-> "none"]

\* isSilence: no sample of the buffer is louder than the threshold.
IsSilence(acc) == ~acc.loud

\* History of the turn in progress, in batches: the pre-roll prepended when
\* it began, the batches answered speech_start, the batches appended while a
\* VAD request was in flight, and the batches sent to the VAD and answered
\* silence or not at all.
NoTurn == [preRoll |-> 0, started |-> 0, buffered |-> 0, other |-> 0]

\* History of the turn that ended last: how it ended, what the STT gave,
\* whether its text went to the LLM or was dropped by a closed LLM socket, and
\* how many transcript entries and user messages it made.
NoLastTurn ==
    [end |-> "none", stt |-> "none", said |-> FALSE, delivered |-> FALSE, llmDown |-> FALSE,
     entries |-> 0, msgs |-> 0]

\* History of the VAD reply handled last: its event, whether the turn had
\* lasted less than MIN_SPEECH_MS, and whether a held turn was continued.
NoReply == [event |-> "none", short |-> FALSE, continuation |-> FALSE]

\* The turn is over: the histories start afresh.
TurnEnds(w, why) ==
    [w EXCEPT !.obs.turn = NoTurn, !.obs.lastTurn = [NoLastTurn EXCEPT !.end = why]]

\* A turn is being tracked.
Tracking(w) == w.session.isSpeaking \/ w.session.awaitingTurnConfirmation

\* A CallSession.appendSpeechBuffer that stores the chunk twice (faulty
\* variant).
AppendSpeechBufferTwice(w, chunk) ==
    [w EXCEPT !.session.speechBuffer = @ \o chunk \o chunk]

\* CallSession.appendSpeechBuffer
AppendSpeechBuffer(w, chunk) == [w EXCEPT !.session.speechBuffer = @ \o chunk]

\* CallSession.flushSpeechBuffer: the buffer is emptied (its content is read
\* by the caller before).
FlushSpeechBuffer(w) == [w EXCEPT !.session.speechBuffer = <<>>]

\* A pre-roll that drops the newest batch when it is full (faulty variant).
PushPreRollPop(ring, b) ==
    LET r == Append(ring, b) IN
    IF Len(r) > PRE_ROLL_BATCHES THEN SubSeq(r, 1, Len(r) - 1) ELSE r

\* The rolling pre-roll: the batch is pushed, the oldest one shifted out.
PushPreRoll(ring, b) ==
    LET r == Append(ring, b) IN
    IF Len(r) > PRE_ROLL_BATCHES THEN Tail(r) ELSE r

\* A handleIncomingAudio without its in-flight guard (faulty variant).
VadNeverBusy(w) == FALSE

\* The in-flight guard of handleIncomingAudio.
VadBusy(w) == w.session.vadInFlight

\* A silence pre-filter that drops every silent batch (faulty variant).
PreFilterAllSilence(w, silent) == silent

\* The silence pre-filter of handleIncomingAudio.
PreFiltered(w, silent) ==
    silent /\ ~w.session.isSpeaking /\ ~w.session.awaitingTurnConfirmation

\* What became of a batch in handleIncomingAudio.
Fate(w, silent) ==
    IF PreFiltered(w, silent)
    THEN "filtered"
    ELSE IF VadBusy(w)
         THEN IF w.session.isSpeaking THEN "buffered" ELSE "discarded"
         ELSE "sent"

\* handleIncomingAudio once the accumulator holds a batch.
OnBatch(w, silent) ==
    LET b == w.obs.nBatches + 1
        fate == Fate(w, silent)
        w1 == [w EXCEPT !.session.vadAccumulator = [n |-> 0, loud |-> FALSE],
                        !.session.preRollBuffer = PushPreRoll(@, b),
                        !.obs.nBatches = b,
                        !.obs.lastBatch = [silent |-> silent,
                                           isSpeaking |-> w.session.isSpeaking,
                                           awaiting |-> w.session.awaitingTurnConfirmation,
                                           vadInFlight |-> w.session.vadInFlight,
                                           fate |-> fate]] IN
    CASE fate = "filtered" -> w1
      [] fate = "buffered" -> [AppendSpeechBuffer(w1, <<b>>) EXCEPT !.obs.turn.buffered = @ + 1]
      [] fate = "discarded" -> w1
      [] OTHER -> [w1 EXCEPT !.session.vadInFlight = TRUE,
                             !.proc.vad = [NoVad EXCEPT !.pc = "detect", !.batch = b],
                             !.obs.vadOutstanding = @ + 1]

\* handleIncomingAudio(session, frame); loud is whether the frame has a
\* sample above the silence threshold.
HandleIncomingAudio(w, loud) ==
    IF w.session.status # "active"
    THEN w
    ELSE LET acc == [n |-> w.session.vadAccumulator.n + 1,
                     loud |-> w.session.vadAccumulator.loud \/ loud] IN
         IF acc.n < VAD_BATCH_CHUNKS
         THEN [w EXCEPT !.session.vadAccumulator = acc]
         ELSE OnBatch(w, IsSilence(acc))

\* A frame is handed to handleIncomingAudio; frames are numbered in arrival
\* order, and one handed over after a later one is recorded.
ProcessFrame(w, f) ==
    HandleIncomingAudio([w EXCEPT !.obs.reordered = @ \/ f.n < w.obs.lastFrame,
                                  !.obs.lastFrame = IF f.n > @ THEN f.n ELSE @],
                        f.loud)

\* The drain loop of initPipeline: the queued frames in queue order.
RECURSIVE DrainFrom(_, _)
DrainFrom(w, q) ==
    IF q = <<>> THEN w ELSE DrainFrom(ProcessFrame(w, Head(q)), Tail(q))

DrainMediaQueue(w) == DrainFrom([w EXCEPT !.proc.mediaQueue = <<>>], w.proc.mediaQueue)

\* A 'media' message of the telephony socket: queued until pipelineReady is
\* set, handled at once afterwards.
MediaFrame(loud) ==
    /\ proc.initPc \in {"connect", "first", "ready"}
    /\ net.wsState = "open"
    /\ obs.nBatches < lim.batches
    /\ ~PipelineIsReady(World) => Len(proc.mediaQueue) < lim.queue
    /\ LET f == [n |-> obs.nFrames + 1, loud |-> loud]
           w1 == [World EXCEPT !.obs.nFrames = f.n] IN
       Becomes(IF PipelineIsReady(w1)
               THEN ProcessFrame(w1, f)
               ELSE [w1 EXCEPT !.proc.mediaQueue = Append(@, f)])

\* A VAD request that ends without releasing the guard (faulty variant).
VadFinishKeepsGuard(w) ==
    [w EXCEPT !.proc.vad = NoVad,
              !.obs.vadOutstanding = @ - 1]

\* The .finally of the VAD request: the in-flight guard is released.
VadFinish(w) ==
    [w EXCEPT !.session.vadInFlight = FALSE,
              !.proc.vad = NoVad,
              !.obs.vadOutstanding = @ - 1]

\* session.transcript.push of the user's text.
PushTranscript(w) == [w EXCEPT !.obs.lastTurn.said = TRUE, !.obs.lastTurn.entries = @ + 1]

\* A sendUserMessage that sends nothing (faulty variant).
SendUserMessageNever(w) == w

\* OpenAIRealtimeClient.sendUserMessage: dropped when not connected.
SendUserMessage(w) ==
    IF w.client.isConnected
    THEN [w EXCEPT !.obs.lastTurn.delivered = TRUE, !.obs.lastTurn.msgs = @ + 1]
    ELSE [w EXCEPT !.obs.lastTurn.llmDown = TRUE]

\* The VAD reply handler resumes after transcribeAndRespond and runs to its
\* end: the fallback and the retry restart the silence timer.
AfterTranscribe(w) ==
    VadFinish(IF w.proc.vad.after \in {"fallback", "retry"} THEN StartSilenceTimer(w) ELSE w)

\* transcribeAndRespond up to its await of the STT request.
TranscribeStart(w, audio, after) ==
    LET w1 == [w EXCEPT !.proc.vad.after = after, !.proc.vad.audio = audio] IN
    IF w1.session.transcribeInFlight
    THEN AfterTranscribe(w1)
    ELSE [w1 EXCEPT !.session.transcribeInFlight = TRUE, !.proc.vad.pc = "stt",
                    !.obs.sttOutstanding = @ + 1]

\* The sequential STT request settles: "fail" (rejected), "empty" (no text
\* once trimmed) or "text".
SttDone(outcome) ==
    /\ proc.vad.pc = "stt"
    /\ LET w1 == [World EXCEPT !.session.transcribeInFlight = FALSE,
                               !.obs.sttOutstanding = @ - 1,
                               !.obs.lastTurn.stt = outcome] IN
       Becomes(AfterTranscribe(IF outcome = "text"
                               THEN SendUserMessage(PushTranscript(w1))
                               ELSE w1))

\* A fast interrupt path that never interrupts (faulty variant).
FastInterruptNever(w, high) == [w EXCEPT !.session.fastInterruptCount = 0]

\* The fast interrupt path of the VAD reply handler; high is whether the
\* probability of the reply reaches FAST_INTERRUPT_PROB.
FastInterrupt(w, high) ==
    IF w.session.isAISpeaking /\ high
    THEN InterruptAI([w EXCEPT !.session.fastInterruptCount = 0])
    ELSE [w EXCEPT !.session.fastInterruptCount = 0]

\* A speech_start branch that begins the buffer anew with the batch, the held
\* audio lost (faulty variant).
SpeechStartReplaces(w, b) ==
    ClearSilenceTimer([w EXCEPT !.session.speechStartCount = @ + 1,
                                !.obs.turn.started = @ + 1,
                                !.session.turnSilenceMs = 0,
                                !.session.isSpeaking = TRUE,
                                !.session.speechStartedAt = TRUE,
                                !.session.speechBuffer = <<b>>])

\* The speech_start branch up to the max-speech check.
SpeechStartBuffers(w, b) ==
    LET w1 == [w EXCEPT !.session.speechStartCount = @ + 1,
                        !.obs.turn.started = @ + 1] IN
    IF w1.session.awaitingTurnConfirmation
    THEN LET w2 == [w1 EXCEPT !.session.turnSilenceMs = 0]
             w3 == IF ~w2.session.isSpeaking
                   THEN ClearSilenceTimer([w2 EXCEPT !.session.isSpeaking = TRUE,
                                                     !.session.speechStartedAt = TRUE])
                   ELSE w2 IN
         AppendSpeechBuffer(w3, <<b>>)
    ELSE IF ~w1.session.isSpeaking
         THEN LET w2 == ClearSilenceTimer(
                            [w1 EXCEPT !.session.isSpeaking = TRUE,
                                       !.session.speechStartedAt = TRUE,
                                       !.session.speechStartedDuringAI = w1.session.isAISpeaking,
                                       !.obs.turn = [NoTurn EXCEPT !.started = 1,
                                           !.preRoll = Len(w1.session.preRollBuffer)]]) IN
              AppendSpeechBuffer(AppendSpeechBuffer(w2, w2.session.preRollBuffer), <<b>>)
         ELSE AppendSpeechBuffer(w1, <<b>>)

\* An interrupt of the speech_start branch that leaves speechStartedDuringAI
\* as it is (faulty variant).
SpeechStartInterruptKeepsFlag(w) ==
    IF w.session.speechStartCount >= INTERRUPT_THRESHOLD /\ w.session.isAISpeaking
    THEN InterruptAI(w)
    ELSE w

\* The interrupt of the speech_start branch.
SpeechStartInterrupt(w) ==
    IF w.session.speechStartCount >= INTERRUPT_THRESHOLD /\ w.session.isAISpeaking
    THEN InterruptAI([w EXCEPT !.session.speechStartedDuringAI = FALSE])
    ELSE w

\* The speech_start branch; long is whether the turn, when it began before
\* this reply, has lasted more than MAX_SPEECH_MS.
OnSpeechStart(w, b, long) ==
    LET w1 == SpeechStartInterrupt(SpeechStartBuffers(w, b)) IN
    IF ~w1.session.awaitingTurnConfirmation /\ w.session.speechStartedAt /\ long
    THEN LET speechAudio == w1.session.speechBuffer
             w2 == [TurnEnds(FlushSpeechBuffer(w1), "max")
                                         EXCEPT !.session.isSpeaking = FALSE,
                                                  !.session.speechStartedAt = FALSE,
                                                  !.session.speechStartCount = 0,
                                                  !.session.speechStartedDuringAI = FALSE,
                                                  !.session.awaitingTurnConfirmation = FALSE,
                                                  !.session.turnSilenceMs = 0] IN
         IF Len(speechAudio) > 0 THEN TranscribeStart(w2, speechAudio, "max") ELSE VadFinish(w2)
    ELSE VadFinish(w1)

\* A fallback that fires at the first silence reply (faulty variant).
FallbackDueAtOnce(w) == w.session.turnSilenceMs >= 200

\* The accumulated silence has reached SMART_TURN_STOP_MS.
FallbackDue(w) == w.session.turnSilenceMs >= SMART_TURN_STOP_MS

\* The silence branch.
OnSilence(w) ==
    IF ~w.session.awaitingTurnConfirmation
    THEN VadFinish([w EXCEPT !.session.speechStartCount = 0,
                             !.obs.turn.other = IF Tracking(w) THEN @ + 1 ELSE @])
    ELSE LET w1 == [w EXCEPT !.session.turnSilenceMs = @ + 200,
                             !.obs.turn.other = @ + 1] IN
         IF FallbackDue(w1)
         THEN LET audio == w1.session.speechBuffer
                  w2 == [TurnEnds(FlushSpeechBuffer(w1), "fallback")
                                              EXCEPT !.session.awaitingTurnConfirmation = FALSE,
                                                       !.session.turnSilenceMs = 0,
                                                       !.session.isSpeaking = FALSE,
                                                       !.session.speechStartedAt = FALSE,
                                                       !.session.speechStartCount = 0] IN
              IF Len(audio) > 0
              THEN TranscribeStart(w2, audio, "fallback")
              ELSE VadFinish(StartSilenceTimer(w2))
         ELSE VadFinish(w1)

\* The three early exits of the speech_end branch: flags cleared, silence
\* timer restarted.
DiscardTurn(w, why) ==
    VadFinish(StartSilenceTimer([TurnEnds(w, why)
                                    EXCEPT !.session.speechStartedDuringAI = FALSE,
                                           !.session.awaitingTurnConfirmation = FALSE,
                                           !.session.turnSilenceMs = 0]))

\* A minimum speech duration gate that lets every turn through (faulty
\* variant).
NeverTooShort(w, short) == FALSE

\* speechDurationMs < MIN_SPEECH_MS: a turn with no start time lasts 0 ms.
TooShort(w, short) == IF w.session.speechStartedAt THEN short ELSE TRUE

\* The speech_end branch up to its await of the turn check and the STT; short
\* is whether the turn has lasted less than MIN_SPEECH_MS.
OnSpeechEnd(w, short) ==
    LET isConfirmationContinuation == w.session.awaitingTurnConfirmation
        tooShort == TooShort(w, short)
        speechAudio == w.session.speechBuffer
        w1 == [FlushSpeechBuffer(w) EXCEPT !.session.speechStartCount = 0,
                                           !.session.isSpeaking = FALSE,
                                           !.session.speechStartedAt = FALSE] IN
    IF ~isConfirmationContinuation /\ tooShort
    THEN DiscardTurn(w1, "short")
    ELSE IF /\ ~isConfirmationContinuation
            /\ w1.session.speechStartedDuringAI
            /\ w1.session.speechStartCount < INTERRUPT_THRESHOLD
         THEN DiscardTurn(w1, "muted")
         ELSE IF Len(speechAudio) = 0
              THEN DiscardTurn(w1, "empty")
              ELSE [w1 EXCEPT !.session.speechStartedDuringAI = FALSE,
                              !.proc.vad.pc = "turn",
                              !.proc.vad.audio = speechAudio,
                              !.obs.sttOutstanding = @ + 1]

\* The VAD reply handler.
OnVadResult(w, event, high, long, short) ==
    IF w.session.status # "active"
    THEN VadFinish([w EXCEPT !.obs.lastReply = [NoReply EXCEPT !.event = "inactive"]])
    ELSE LET w1 == FastInterrupt([w EXCEPT !.obs.lastReply =
                                      [event |-> event, short |-> short,
                                       continuation |-> w.session.awaitingTurnConfirmation]],
                                 high) IN
         CASE event = "speech_start" -> OnSpeechStart(w1, w.proc.vad.batch, long)
           [] event = "silence" -> OnSilence(w1)
           [] OTHER -> OnSpeechEnd(w1, short)

VadEvents == {"speech_start", "silence", "speech_end"}

\* The VAD request is answered.
VadReply(event, high, long, short) ==
    /\ proc.vad.pc = "detect"
    /\ high => session.isAISpeaking
    /\ long => session.speechStartedAt /\ event = "speech_start"
    /\ short => session.speechStartedAt /\ event = "speech_end"
    /\ Becomes(OnVadResult(World, event, high, long, short))

\* The VAD request fails (timeout, transport): the batch is dropped and the
\* guard released.
VadFail ==
    /\ proc.vad.pc = "detect"
    /\ Becomes(VadFinish([World EXCEPT !.obs.lastReply = NoReply,
                                       !.obs.turn.other =
                                           IF Tracking(World) THEN @ + 1 ELSE @]))

\* The smart-turn check of the GPU service: its answer is complete or not.
CheckTurnComplete == BOOLEAN

\* An INCOMPLETE branch that does not put the audio back (faulty variant).
HoldTurnDropsAudio(w, speechAudio) ==
    [w EXCEPT !.session.awaitingTurnConfirmation = TRUE,
              !.session.turnSilenceMs = 0]

\* The INCOMPLETE branch: the audio is put back and the turn is held.
HoldTurn(w, speechAudio) ==
    [AppendSpeechBuffer(w, speechAudio)
        EXCEPT !.session.awaitingTurnConfirmation = TRUE,
               !.session.turnSilenceMs = 0]

\* A COMPLETE branch that takes a failed parallel STT as its result (faulty
\* variant).
ParallelSttAlways(w, stt) == ~w.session.transcribeInFlight

\* The COMPLETE branch uses the parallel STT result: no transcription is in
\* flight and the result has a text field.
ParallelSttUsable(w, stt) == ~w.session.transcribeInFlight /\ stt # "fail"

\* The speech_end branch after the turn check and the parallel STT settled;
\* stt is "fail" (rejected, or no text field), "empty" or "text".
OnTurnResult(w, complete, stt) ==
    LET speechAudio == w.proc.vad.audio IN
    IF ~complete
    THEN VadFinish([HoldTurn(w, speechAudio)
                       EXCEPT !.obs.lastTurn = [NoLastTurn EXCEPT !.end = "held"]])
    ELSE LET w1 == [TurnEnds(w, "complete")
                        EXCEPT !.session.awaitingTurnConfirmation = FALSE,
                               !.session.turnSilenceMs = 0,
                               !.obs.lastTurn.stt = stt] IN
         IF ParallelSttUsable(w1, stt)
         THEN VadFinish(StartSilenceTimer(IF stt = "text"
                                          THEN SendUserMessage(PushTranscript(w1))
                                          ELSE w1))
         ELSE IF ~w1.session.transcribeInFlight
              THEN TranscribeStart(w1, speechAudio, "retry")
              ELSE VadFinish(StartSilenceTimer(w1))

\* A handler that resumes on the turn check alone, the parallel STT still
\* outstanding (faulty variant).
ResumeOnTurnCheck(w) == w

\* The Promise.all of the speech_end branch: the handler resumes once the
\* turn check and the parallel STT, whose rejection is caught, have settled.
ResumeOnBoth(w) == [w EXCEPT !.obs.sttOutstanding = @ - 1]

\* The turn check and the parallel STT have both settled.
TurnDone(complete, stt) ==
    /\ proc.vad.pc = "turn"
    /\ complete \in CheckTurnComplete
    /\ Becomes(OnTurnResult(ResumeOnBoth(World), complete, stt))

\* ---------------------------------------------------------- initial state
\* The CallSession as its constructor leaves it, registered by
\* CallManager.create, with the client not yet built.
NewSession ==
    [status |-> "connecting", twilioStreamSid |-> "null",
     silenceTimer |-> FALSE, maxDurationTimer |-> FALSE,
     isAISpeaking |-> FALSE, ttsBuffer |-> "", ttsSentenceQueue |-> 0,
     vadAccumulator |-> [n |-> 0, loud |-> FALSE], preRollBuffer |-> <<>>,
     speechBuffer |-> <<>>, isSpeaking |-> FALSE, speechStartedAt |-> FALSE,
     speechStartCount |-> 0, speechStartedDuringAI |-> FALSE, fastInterruptCount |-> 0,
     awaitingTurnConfirmation |-> FALSE, turnSilenceMs |-> 0,
     vadInFlight |-> FALSE, transcribeInFlight |-> FALSE]

\* The OpenAIRealtimeClient as its constructor leaves it.
NewClient(l) ==
    [ws |-> "none", isConnected |-> FALSE, currentResponseId |-> 0,
     pendingFunctionCalls |-> [c \in 1..l.calls |-> NoPending]]

NewProc(l) ==
    [initPc |-> "new", conn |-> [settled |-> FALSE, timer |-> FALSE, result |-> "pending"],
     mediaQueue |-> <<>>,
     stream |-> [of |-> 0, chunks |-> <<>>, totalBytes |-> 0, bytesReceived |-> 0],
     endCallPc |-> "idle", endReason |-> "none",
     cleanupPc |-> "idle", cleanupReason |-> "none",
     transferPc |-> "idle", transferKind |-> "none",
     utter |-> [i \in 1..l.utter |-> NoUtter],
     fn |-> [c \in 1..l.calls |-> "none"],
     vad |-> NoVad]

NewNet(l) ==
    [wsState |-> "open", startSeen |-> FALSE, stopSeen |-> FALSE, marks |-> 0,
     llm |-> [c \in 1..l.calls |-> NoCall]]

NoHistory ==
    [nCleanupCalls |-> 0, nDisconnect |-> 0, nVadReset |-> 0, posts |-> <<>>,
     nRemove |-> 0, nHangup |-> 0, nEndCalls |-> 0, nWebhooks |-> 0,
     hangupFailed |-> FALSE, nTransfers |-> 0, armed |-> {},
     frames |-> <<>>, markAt |-> -1, text |-> <<>>, flushed |-> <<>>,
     codec |-> [pc |-> "none", sample |-> 0, byte |-> 0, decoded |-> 0], nToolCalls |-> 0, toolArgs |-> [phone_number |-> "undefined", condition |-> "undefined"],
     toolResult |-> NoResult, transferEvents |-> <<>>,
     nSettle |-> 0, firstEvent |-> "none", settledBy |-> "none",
     terminated |-> FALSE, uncaught |-> FALSE,
     nInterrupts |-> 0, cancelled |-> {}, nResponses |-> 0,
     media |-> <<>>, lateMedia |-> {}, lateSynth |-> {}, lateText |-> {},
     events |-> <<>>, doneOrder |-> <<>>, results |-> <<>>,
     nBatches |-> 0, vadOutstanding |-> 0, sttOutstanding |-> 0,
     nFrames |-> 0, lastFrame |-> 0, reordered |-> FALSE,
     lastBatch |-> [silent |-> FALSE, isSpeaking |-> FALSE, awaiting |-> FALSE,
                    vadInFlight |-> FALSE, fate |-> "none"],
     turn |-> NoTurn, lastTurn |-> NoLastTurn, lastReply |-> NoReply]

\* A call whose audio socket has just connected, under the budgets l and one
\* of the assistant configurations of cfgs: the connection handler awaits
\* the configuration (proc.initPc = "new"), and the session and the client
\* hold what their constructors will give them.
InitWith(l, cfgs) ==
    /\ lim = l
    /\ cfg \in cfgs
    /\ session = NewSession
    /\ sessions = {CallSid}
    /\ client = NewClient(l)
    /\ proc = NewProc(l)
    /\ net = NewNet(l)
    /\ obs = NoHistory

\* The steps of the synthesis path.
TtsStep ==
    \/ \E i \in DOMAIN proc.utter, ok \in BOOLEAN : TtsResponse(i, ok)
    \/ \E i \in DOMAIN proc.utter, frames \in BOOLEAN : TtsData(i, frames)
    \/ \E i \in DOMAIN proc.utter, remainder \in BOOLEAN : TtsEnd(i, remainder)
    \/ \E i \in DOMAIN proc.utter : TtsStall(i)
    \/ \E i \in DOMAIN proc.utter : TtsError(i)
    \/ MarkEcho

\* The steps of the LLM tool-call stream.
ToolStep ==
    \/ \E c \in DOMAIN net.llm, name \in lim.tools, doc \in lim.docs : ArgumentsDelta(c, name, doc)
    \/ \E c \in DOMAIN net.llm : ArgumentsDone(c)

\* The steps of cleanup and endCall past their awaits.
TeardownStep ==
    \/ \E ok \in BOOLEAN : HangupDone(ok)
    \/ CleanupResetDone
    \/ CleanupPostDone

\* ------------------------------------------------- call lifecycle (SpecLife)
\* The teardown paths of a call that speaks no first message: socket events,
\* timers, the status webhook, the end_call and transfer tools.
\* status webhooks delivered for the call
LifeWebhooks == 1
\* invocations of endCall
LifeEndCalls == 2
\* transfers requested by the LLM
LifeTransfers == 1
\* tool calls of the LLM
LifeCalls == 1

LifeLim ==
    [webhooks |-> LifeWebhooks, endCalls |-> LifeEndCalls, transfers |-> LifeTransfers,
     calls |-> LifeCalls, utter |-> 0, chunks |-> 0, responses |-> 0, batches |-> 0, queue |-> 0,
     frames |-> {}, tools |-> {"end_call", "transfer_to_agent"}, docs |-> {<<"{", "}">>}]

LifeCfgs ==
    [first_message : {FALSE}, enable_filler_phrases : {FALSE},
     transfer_configured : {TRUE}, transfer_message : {FALSE}]

InitLife == InitWith(LifeLim, LifeCfgs)

NextLife ==
    \/ InitPipeline
    \/ ConnectOk
    \/ ConnectFail
    \/ WsStop
    \/ WsError
    \/ WsClose
    \/ SilenceTimeout
    \/ MaxDurationTimeout
    \/ \E terminal \in BOOLEAN : StatusWebhook(terminal)
    \/ TeardownStep
    \/ ToolStep
    \/ \E ok \in BOOLEAN : TransferLookupDone(ok)
    \/ \E ok \in BOOLEAN : TransferUpdateDone(ok)

SpecLife == InitLife /\ [][NextLife]_vars

\* No cleanup is under way.
CleanupQuiet == proc.cleanupPc \in {"idle", "done"}

\* The effects of cleanup on the outside world, each counted.
CleanupEffects == <<obs.nDisconnect, obs.nVadReset, Len(obs.posts), obs.nRemove>>

\* C4: every terminal path funnels through cleanup: once the call has ended,
\* the socket is closed and no cleanup is under way, the LLM socket has been
\* disconnected, the VAD reset and the completion payload posted, each
\* exactly once.
C4_EveryEndRunsCleanup ==
    (session.status = "ended" /\ net.wsState = "closed" /\ CleanupQuiet)
        => /\ obs.nDisconnect = 1
           /\ obs.nVadReset = 1
           /\ Len(obs.posts) = 1

\* This step is an invocation of cleanup.
CleanupInvoked == obs'.nCleanupCalls = obs.nCleanupCalls + 1

\* The session apart from whether its timers are pending.
Timerless(s) == [s EXCEPT !.silenceTimer = FALSE, !.maxDurationTimer = FALSE]

\* C5: cleanup is idempotent over N >= 1 invocations, sequential or
\* overlapping: the LLM disconnect, the VAD reset, the completion POST and the
\* registry removal happen at most once, all of them exactly once when
\* cleanup has returned, with the timers cleared; an invocation on an ended
\* session changes nothing.
C5_CleanupIdempotent ==
    /\ [](/\ obs.nDisconnect <= 1
          /\ obs.nVadReset <= 1
          /\ Len(obs.posts) <= 1
          /\ obs.nRemove <= 1
          /\ proc.cleanupPc = "done"
                => /\ CleanupEffects = <<1, 1, 1, 1>>
                   /\ session.status = "ended"
                   /\ ~session.silenceTimer /\ ~session.maxDurationTimer
                   /\ CallSid \notin sessions
                   /\ ~client.isConnected)
    /\ [][(CleanupInvoked /\ session.status = "ended")
             => /\ CleanupEffects' = CleanupEffects
                /\ session' = session
                /\ sessions' = sessions
                /\ client' = client
                /\ proc'.cleanupPc = proc.cleanupPc]_vars

\* C5 witness: cleanup was invoked at least three times and has returned.
C5_Witness ==
    /\ obs.nCleanupCalls >= 3
    /\ proc.cleanupPc = "done"
    /\ CleanupEffects = <<1, 1, 1, 1>>

\* This step is an invocation of endCall.
EndCallInvoked == obs'.nEndCalls = obs.nEndCalls + 1

\* C10: endCall is idempotent and always reaches cleanup: invoked on an
\* ending or ended call it does nothing; otherwise it sets ending and issues
\* the hangup, at most once per call; when the hangup settles, fulfilled or
\* rejected, it enters cleanup, and it returns only on an ended call.
C10_EndCallIdempotent ==
    /\ [](/\ obs.nHangup <= 1
          /\ proc.endCallPc = "hangup" => session.status \in {"ending", "ended"}
          /\ proc.endCallPc \in {"cleanup", "done"} => session.status = "ended")
    /\ [][(EndCallInvoked /\ EndCallSkips(World))
             => /\ Timerless(session') = Timerless(session)
                /\ obs'.nHangup = obs.nHangup
                /\ proc'.endCallPc = proc.endCallPc
                /\ obs'.nCleanupCalls = obs.nCleanupCalls]_vars
    /\ [][(EndCallInvoked /\ ~EndCallSkips(World))
             => /\ session'.status = "ending"
                /\ obs'.nHangup = obs.nHangup + 1
                /\ proc'.endCallPc = "hangup"]_vars
    /\ [][(proc.endCallPc = "hangup" /\ proc'.endCallPc # "hangup")
             => /\ CleanupInvoked
                /\ proc'.endCallPc \in {"cleanup", "done"}
                /\ session'.status = "ended"]_vars

\* C10 witness: the hangup was rejected, endCall has returned through
\* cleanup, and endCall was invoked a second time.
C10_Witness ==
    /\ obs.hangupFailed
    /\ proc.endCallPc = "done"
    /\ proc.cleanupPc = "done"
    /\ obs.nEndCalls >= 2
    /\ obs.nHangup = 1

\* ------------------------------------------------- synthesis path (SpecTts)
\* The LLM streams sentences while the caller's audio can interrupt.
\* texts handed to the synthesis path
TtsUtter == 2
\* data events that deliver audio for one synthesis stream
TtsChunks == 1
\* 200 ms batches of caller audio
TtsBatches == 1

TtsLim ==
    [webhooks |-> 0, endCalls |-> 0, transfers |-> 0,
     calls |-> 0, utter |-> TtsUtter, chunks |-> TtsChunks, responses |-> 0,
     batches |-> TtsBatches, queue |-> 0, frames |-> {TRUE},
     tools |-> {}, docs |-> {}]

TtsCfgs ==
    [first_message : BOOLEAN, enable_filler_phrases : {FALSE},
     transfer_configured : {FALSE}, transfer_message : {FALSE}]

InitTts == InitWith(TtsLim, TtsCfgs)

NextTts ==
    \/ InitPipeline
    \/ ConnectOk
    \/ \E boundary \in BOOLEAN : TextDelta(boundary)
    \/ TextDone
    \/ TtsStep
    \/ \E loud \in lim.frames : MediaFrame(loud)
    \/ \E e \in VadEvents, high, long, short \in BOOLEAN : VadReply(e, high, long, short)
    \/ VadFail

SpecTts == InitTts /\ [][NextTts]_vars

\* C2: after an interrupt, no media frame of a sentence chained on the
\* sentence queue before the interrupt goes to the telephony socket, and no
\* such sentence that had not started is synthesized.
C2_InterruptSilencesQueue == obs.lateMedia = {} /\ obs.lateSynth = {}

\* The streams that have sent media and are still open.
Sending ==
    {i \in DOMAIN proc.utter :
        proc.utter[i].st = "stream" /\ \E j \in DOMAIN obs.media : obs.media[j] = i}

\* The utterances of the media log, in the order they were handed to the
\* synthesis path.
InOrder(log) == \A j \in 1..(Len(log) - 1) : log[j] < log[j + 1]

\* C3: the sentence queue is the total-order gate of outbound audio: at most
\* one synthesis stream is sending media at a time, and the utterances reach
\* the telephony socket in the order they were enqueued.
C3_SerialQueueGate == Cardinality(Sending) <= 1 /\ InOrder(obs.media)

\* ------------------------------------------------ turn taking (SpecAudio)
\* The caller's audio, the VAD replies, the turn check and the STT, on a
\* call that speaks no first message.
\* 200 ms batches of caller audio
AudioBatches == 5

AudioLim ==
    [webhooks |-> 0, endCalls |-> 0, transfers |-> 0,
     calls |-> 0, utter |-> 0, chunks |-> 0, responses |-> 0,
     batches |-> AudioBatches, queue |-> 0, frames |-> BOOLEAN,
     tools |-> {}, docs |-> {}]

AudioCfgs ==
    [first_message : {FALSE}, enable_filler_phrases : {FALSE},
     transfer_configured : {FALSE}, transfer_message : {FALSE}]

InitAudio == InitWith(AudioLim, AudioCfgs)

SttOutcomes == {"fail", "empty", "text"}

NextAudio ==
    \/ InitPipeline
    \/ ConnectOk
    \/ \E loud \in lim.frames : MediaFrame(loud)
    \/ \E e \in VadEvents, high, long, short \in BOOLEAN : VadReply(e, high, long, short)
    \/ VadFail
    \/ \E complete \in BOOLEAN, stt \in SttOutcomes : TurnDone(complete, stt)
    \/ \E outcome \in SttOutcomes : SttDone(outcome)
    \/ LlmClose

SpecAudio == InitAudio /\ [][NextAudio]_vars

\* Every request of the reply handler settles: the HTTP client times out.
SpecAudioFair ==
    /\ SpecAudio
    /\ WF_vars(\E complete \in BOOLEAN, stt \in SttOutcomes : TurnDone(complete, stt))
    /\ WF_vars(\E outcome \in SttOutcomes : SttDone(outcome))

\* C1: at most one VAD request is outstanding: a request is issued only when
\* vadInFlight is false, and vadInFlight stays true until the reply handler,
\* with its turn-check and STT awaits, has finished.
C1_OneVadOutstanding ==
    /\ [](/\ obs.vadOutstanding <= 1
          /\ (obs.vadOutstanding = 1) = session.vadInFlight
          /\ (proc.vad.pc # "idle") = session.vadInFlight)
    /\ [][obs'.vadOutstanding > obs.vadOutstanding => ~session.vadInFlight]_vars

\* C1 witness: a batch arrived while the reply handler awaited the STT, and
\* no request was issued for it.
C1_Witness ==
    /\ proc.vad.pc = "stt"
    /\ session.vadInFlight
    /\ obs.lastBatch.vadInFlight
    /\ obs.lastBatch.fate = "discarded"

\* The batch produced last is pure silence and was produced while a turn was
\* tracked.
SilentWhileTracking ==
    obs.lastBatch.silent /\ (obs.lastBatch.isSpeaking \/ obs.lastBatch.awaiting)

\* C6 (as stated): a pure-silence batch produced while user-is-speaking or
\* awaiting-turn-confirmation is always delivered to the VAD.
C6_SilentBatchReachesVad == SilentWhileTracking => obs.lastBatch.fate = "sent"

\* C6 (amended): a pure-silence batch produced while user-is-speaking or
\* awaiting-turn-confirmation is never dropped by the silence pre-filter; it
\* is delivered to the VAD exactly when no VAD request is in flight, and
\* otherwise appended to the speech buffer when user-is-speaking and
\* discarded when not.
C6_SilentBatchNotFiltered ==
    SilentWhileTracking =>
        /\ obs.lastBatch.fate # "filtered"
        /\ (obs.lastBatch.fate = "sent") = ~obs.lastBatch.vadInFlight
        /\ obs.lastBatch.vadInFlight =>
              obs.lastBatch.fate = IF obs.lastBatch.isSpeaking THEN "buffered" ELSE "discarded"

\* C6 witness: a pure-silence batch of a held turn went to the VAD.
C6_Witness ==
    /\ SilentWhileTracking
    /\ obs.lastBatch.awaiting
    /\ obs.lastBatch.fate = "sent"

\* The reply handler has finished a turn that the turn check found complete.
TurnComplete == proc.vad.pc = "idle" /\ obs.lastTurn.end = "complete"

TurnOpen == Tracking(World) /\ proc.vad.pc # "turn"

\* The batches that are in the speech buffer more than once.
Duplicated ==
    Len(session.speechBuffer)
    - Cardinality({session.speechBuffer[j] : j \in DOMAIN session.speechBuffer})

Abs(x) == IF x < 0 THEN -x ELSE x

\* C9 (as stated): the audio appended to the speech buffer for a turn equals
\* the batches sent to the VAD since speech_start plus the pre-roll, within
\* 400 ms (two batches).
C9_BufferMatchesVadBatches ==
    TurnOpen =>
        Abs(Len(session.speechBuffer)
            - (obs.turn.started + obs.turn.other + obs.turn.preRoll)) <= PRE_ROLL_BATCHES

\* C9 (amended): the audio appended to the speech buffer for a turn equals
\* the pre-roll prepended at speech_start, plus the batches answered
\* speech_start, plus the batches that arrived while a VAD request was in
\* flight; batches answered silence are not appended; at most one batch
\* (200 ms) is in the buffer twice, and the pre-roll is at most 400 ms.
C9_BufferAccounting ==
    TurnOpen =>
        /\ Len(session.speechBuffer)
              = obs.turn.preRoll + obs.turn.started + obs.turn.buffered
        /\ Duplicated <= 1
        /\ obs.turn.preRoll <= PRE_ROLL_BATCHES

\* C9 witness: a turn with pre-roll, a batch appended in flight and a batch
\* answered silence.
C9_Witness ==
    /\ TurnOpen
    /\ obs.turn.preRoll = PRE_ROLL_BATCHES
    /\ obs.turn.buffered > 0
    /\ obs.turn.other > 0

\* ------------------------------------------------ parallel tool calls
\* tool calls the LLM streams in one response
FnCalls == 2

FnLim ==
    [webhooks |-> 0, endCalls |-> 0, transfers |-> 0,
     calls |-> FnCalls, utter |-> 0, chunks |-> 0, responses |-> 0, batches |-> 0, queue |-> 0,
     frames |-> {}, tools |-> {"check_availability", "get_price"},
     docs |-> {<<"{", "q", "}">>, <<"{", "reason", "q", "}">>}]

FnCfgs ==
    [first_message : {FALSE}, enable_filler_phrases : {FALSE},
     transfer_configured : {FALSE}, transfer_message : {FALSE}]

InitFn == InitWith(FnLim, FnCfgs)

NextFn ==
    \/ InitPipeline
    \/ ConnectOk
    \/ ToolStep
    \/ \E c \in DOMAIN proc.fn : ToolHttpDone(c)
    \/ LlmClose

SpecFn == InitFn /\ [][NextFn]_vars

\* The function_call event of call c: its call_id, the name the LLM chose
\* for it, and the parse of the whole document the LLM streamed for it.
EventOf(c) ==
    [call_id |-> c, name |-> net.llm[c].name, args |-> JsonParse(net.llm[c].doc).value]

\* C7: when the LLM streams the argument deltas of K tool calls interleaved
\* in any order (each delta carrying its call_id and the name of its call,
\* each document a JSON object), the client emits exactly one function_call
\* event per call whose arguments-done has arrived, with the call's own name
\* and its own concatenated arguments, in arguments-done order.
C7_ParallelCallsEmitInDoneOrder ==
    /\ Len(obs.events) = Len(obs.doneOrder)
    /\ \A j \in DOMAIN obs.events : obs.events[j] = EventOf(obs.doneOrder[j])
    /\ \A c \in DOMAIN net.llm : net.llm[c].st # "streaming" => ~client.pendingFunctionCalls[c].has

\* C7 witness: two calls of different tools with different arguments, the
\* second begun after the first and done before it, both emitted.
C7_Witness ==
    /\ obs.doneOrder = <<2, 1>>
    /\ Len(obs.events) = 2
    /\ net.llm[1].name # net.llm[2].name
    /\ net.llm[1].doc # net.llm[2].doc

\* ------------------------------------------------ end reason (SpecLife)
\* C11: when endCall is invoked with reason R on an active session, every
\* completion payload posted for the call carries end_reason R, even if the
\* telephony socket closes or a stop arrives while the hangup is in flight.
C11_PostCarriesEndReason ==
    proc.endReason # "none" =>
        \A j \in DOMAIN obs.posts : obs.posts[j] = proc.endReason

\* ------------------------------------------- cancelled responses (SpecCancel)
\* The LLM streams the text of its responses while the caller may interrupt:
\* text events arrive between response.created and response.done, and those
\* already on the wire when response.cancel is sent still arrive.
\* responses the LLM opens
CancelResponses == 1
\* texts handed to the synthesis path
CancelUtter == 2
\* data events per TTS stream
CancelChunks == 1
\* 200 ms batches of caller audio
CancelBatches == 1

CancelLim ==
    [webhooks |-> 0, endCalls |-> 0, transfers |-> 0,
     calls |-> 0, utter |-> CancelUtter, chunks |-> CancelChunks,
     responses |-> CancelResponses, batches |-> CancelBatches, queue |-> 0,
     frames |-> {TRUE},
     tools |-> {}, docs |-> {}]

CancelCfgs ==
    [first_message : {FALSE}, enable_filler_phrases : {FALSE},
     transfer_configured : {FALSE}, transfer_message : {FALSE}]

InitCancel == InitWith(CancelLim, CancelCfgs)

\* A text event of the response the LLM is streaming.
ResponseText ==
    /\ client.currentResponseId # 0
    /\ \/ \E boundary \in BOOLEAN : TextDelta(boundary)
       \/ TextDone

NextCancel ==
    \/ InitPipeline
    \/ ConnectOk
    \/ ResponseCreated
    \/ ResponseText
    \/ ResponseDone
    \/ TtsStep
    \/ \E loud \in lim.frames : MediaFrame(loud)
    \/ \E e \in VadEvents, high, long, short \in BOOLEAN : VadReply(e, high, long, short)
    \/ VadFail

SpecCancel == InitCancel /\ [][NextCancel]_vars

\* C12: after an interrupt has cancelled the in-flight LLM response, the text
\* deltas and the text-done of that response that arrive afterwards are not
\* enqueued for synthesis, so no audio of the cancelled response is sent.
C12_CancelledTextNotEnqueued == obs.lateText = {}

\* ------------------------------------------------ inbound media (SpecMedia)
\* Caller frames that arrive while initPipeline connects, speaks the first
\* message and drains its queue.
\* frames queued before pipelineReady
MediaQueue == 2
\* 200 ms batches of caller audio
MediaBatches == 1
\* texts handed to the synthesis path
MediaUtter == 1
\* data events per TTS stream
MediaChunks == 1

MediaLim ==
    [webhooks |-> 0, endCalls |-> 0, transfers |-> 0,
     calls |-> 0, utter |-> MediaUtter, chunks |-> MediaChunks, responses |-> 0,
     batches |-> MediaBatches, queue |-> MediaQueue, frames |-> BOOLEAN,
     tools |-> {}, docs |-> {}]

MediaCfgs ==
    [first_message : BOOLEAN, enable_filler_phrases : {FALSE},
     transfer_configured : {FALSE}, transfer_message : {FALSE}]

InitMedia == InitWith(MediaLim, MediaCfgs)

NextMedia ==
    \/ InitPipeline
    \/ WsStart
    \/ ConnectOk
    \/ \E loud \in lim.frames : MediaFrame(loud)
    \/ TtsStep
    \/ \E e \in VadEvents, high, long, short \in BOOLEAN : VadReply(e, high, long, short)
    \/ VadFail

SpecMedia == InitMedia /\ [][NextMedia]_vars

\* C13: inbound media frames reach handleIncomingAudio in arrival order: no
\* frame that arrived later is handled before a queued earlier frame.
C13_FramesInArrivalOrder == ~obs.reordered

\* C14: a start message received on the audio socket at any time after the
\* socket opens (during the configuration fetch, the LLM connect or the
\* first message) sets the session's stream identifier to its streamSid.
C14_StartSetsStreamSid == net.startSeen => session.twilioStreamSid = StreamSid

\* ------------------------------------------------- STT requests (SpecAudio)
\* C15: at most one STT request is outstanding: the parallel request of
\* speech_end and the sequential ones of the max-speech cut-off, the silence
\* fallback and the retry are each issued only when none is outstanding.
C15_OneSttOutstanding ==
    /\ [](/\ obs.sttOutstanding <= 1
          /\ session.transcribeInFlight => obs.sttOutstanding = 1
          /\ (obs.sttOutstanding = 1) = (proc.vad.pc \in {"turn", "stt"}))
    /\ [][obs'.sttOutstanding > obs.sttOutstanding => obs.sttOutstanding = 0]_vars

\* C15 witness: the parallel STT of a complete turn failed and the retry's
\* sequential STT is now the one outstanding.
C15_Witness ==
    /\ proc.vad.pc = "stt"
    /\ proc.vad.after = "retry"
    /\ obs.lastTurn.stt = "fail"
    /\ obs.sttOutstanding = 1

\* --------------------------------------------------- held turn (SpecAudio)
IsPrefix(s, t) == Len(s) <= Len(t) /\ SubSeq(t, 1, Len(s)) = s

\* The reply handler takes, in this step, one of the branches that flush the
\* speech buffer: speech_end, the silence fallback or the max-speech cut-off.
FlushingBranch ==
    /\ proc.vad.pc = "detect"
    /\ \/ proc'.vad.pc = "turn"
       \/ obs'.lastTurn.end \in {"empty", "fallback", "max"}

\* The reply handler takes, in this step, the speech_start branch.
SpeechStartBranch ==
    /\ proc.vad.pc = "detect"
    /\ obs'.turn.started = obs.turn.started + 1

\* C16: while awaitingTurnConfirmation is true, a speech_start reply sets
\* turnSilenceMs to 0 and appends its batch after the held audio, and every
\* step either extends the speech buffer or is one of the flushing branches.
C16_HeldAudioKept ==
    [][session.awaitingTurnConfirmation =>
          /\ SpeechStartBranch =>
                 /\ session'.turnSilenceMs = 0
                 /\ session'.awaitingTurnConfirmation
                 /\ session'.speechBuffer = Append(session.speechBuffer, proc.vad.batch)
          /\ \/ IsPrefix(session.speechBuffer, session'.speechBuffer)
             \/ FlushingBranch]_vars

\* C16 witness: the user has resumed during a held turn, and the buffer holds
\* the held audio followed by the batch of the speech_start.
C16_Witness ==
    /\ session.awaitingTurnConfirmation
    /\ session.isSpeaking
    /\ session.turnSilenceMs = 0
    /\ Len(session.speechBuffer) >= 2
    /\ obs.lastTurn.end = "held"
    /\ proc.vad.pc = "idle"

\* ------------------------------------------------ cough filter (SpecAudio)
\* The reply handler runs, in this step, on a speech_end reply of a turn that
\* is no continuation of a held turn and has lasted less than MIN_SPEECH_MS.
ShortSpeechEnd ==
    /\ proc.vad.pc = "detect"
    /\ proc'.vad.pc # "detect"
    /\ obs'.lastReply = [event |-> "speech_end", short |-> TRUE, continuation |-> FALSE]

\* C17: a speech_end reply for a turn shorter than MIN_SPEECH_MS that is no
\* continuation empties the speech buffer, leaves no turn check or STT
\* request outstanding, pushes nothing to the transcript, sends no user
\* message to the LLM, and restarts the silence timer.
C17_CoughDiscarded ==
    [][ShortSpeechEnd =>
          /\ session'.speechBuffer = <<>>
          /\ proc'.vad.pc = "idle"
          /\ obs'.sttOutstanding = 0
          /\ ~session'.transcribeInFlight
          /\ obs'.lastTurn = [NoLastTurn EXCEPT !.end = "short"]
          /\ session'.silenceTimer
          /\ ~session'.isSpeaking
          /\ ~session'.awaitingTurnConfirmation]_vars

\* C17 witness: the speech_end reply of a short turn has just been handled:
\* the turn is recorded as discarded, the buffer is empty, no request is
\* awaited and the silence timer is armed.
C17_Witness ==
    /\ obs.lastReply = [event |-> "speech_end", short |-> TRUE, continuation |-> FALSE]
    /\ obs.lastTurn = [NoLastTurn EXCEPT !.end = "short"]
    /\ obs.lastBatch.fate = "sent"
    /\ session.speechBuffer = <<>>
    /\ session.silenceTimer
    /\ proc.vad.pc = "idle"

\* ------------------------------------------------ hangup timers (SpecLife)
\* endCall is invoked in this step with the given reason: it is counted, and
\* unless the call is already ending or ended it begins to end it for that
\* reason.
EndCallWith(reason) ==
    /\ EndCallInvoked
    /\ ~EndCallSkips(World) =>
           /\ session'.status = "ending"
           /\ proc'.endReason = reason
           /\ obs'.nHangup = obs.nHangup + 1
    /\ EndCallSkips(World) =>
           /\ session'.status = session.status
           /\ proc'.endReason = proc.endReason

NextConnect ==
    \/ NextMedia
    \/ ConnectFail
    \/ SocketError
    \/ ConnectTimeout
    \/ LlmClose

SpecConnect == InitMedia /\ [][NextConnect]_vars

\* C19 (as stated): connect() settles exactly once, by whichever of open,
\* error, close before open and the connect timeout is handled first: it
\* resolves on open and rejects otherwise, and a timeout has terminated the
\* socket.
C19_FirstEventSettlesConnect ==
    /\ obs.nSettle <= 1
    /\ obs.firstEvent # "none" =>
           /\ proc.conn.settled
           /\ obs.nSettle = 1
           /\ obs.settledBy = obs.firstEvent
    /\ (proc.conn.result = "resolved") = (obs.settledBy = "open")
    /\ obs.settledBy = "timeout" => obs.terminated

\* ------------------------------------------- transfer rules (SpecTransfer)
\* A call whose assistant has up to TransferRules transfer rules, and whose
\* LLM calls transfer_to_number with a number that is or is not among them.
\* rules of the assistant configuration
TransferRules == 2
\* transfer_to_number calls of the LLM
TransferCalls == 2
\* transfers begun
TransferStarts == 1
\* texts handed to the synthesis path
TransferUtter == 1
\* audio chunks of a synthesis stream
TransferChunks == 1

Rules ==
    [phone_number : {"+15550001", "+15550002"},
     transfer_type : {"undefined", "sip_refer"},
     transfer_message : {"undefined", "One moment please"},
     enable_client_message : BOOLEAN]

RuleLists == UNION {[1..k -> Rules] : k \in 0..TransferRules}

TransferArgs == [phone_number : {"+15550001", "+15550003"}, condition : {"undefined"}]

TransferLim ==
    [webhooks |-> 0, endCalls |-> 0, transfers |-> TransferStarts,
     calls |-> TransferCalls, utter |-> TransferUtter, chunks |-> TransferChunks,
     responses |-> 0, batches |-> 0, queue |-> 0, frames |-> {},
     tools |-> {"transfer_to_number"}, docs |-> {}]

TransferCfgs ==
    [first_message : {FALSE}, enable_filler_phrases : {FALSE},
     transfer_configured : {TRUE}, transfer_message : {FALSE},
     transfer_to_number : RuleLists]

InitTransfer == InitWith(TransferLim, TransferCfgs)

NextTransfer ==
    \/ InitPipeline
    \/ ConnectOk
    \/ \E c \in DOMAIN proc.fn, args \in TransferArgs : TransferToNumberCall(c, args)
    \/ TtsStep
    \/ \E ok \in BOOLEAN : TransferUpdateDone(ok)
    \/ CleanupResetDone
    \/ CleanupPostDone

SpecTransfer == InitTransfer /\ [][NextTransfer]_vars

\* The rules of the configuration that have the number of the call handled
\* in this step.
RulesForCall ==
    {i \in DOMAIN cfg.transfer_to_number :
         cfg.transfer_to_number[i].phone_number = obs'.toolArgs.phone_number}

\* C20: a transfer_to_number call whose number has a rule emits exactly one
\* transfer_to_number event, with the rule's transfer_type (conference when
\* the rule has none), transfer_message and enable_client_message, and
\* succeeds; a call whose number has no rule emits none and returns success
\* false.
C20_TransferEventPerRule ==
    [][obs'.nToolCalls = obs.nToolCalls + 1 =>
          IF RulesForCall # {}
          THEN /\ Len(obs'.transferEvents) = Len(obs.transferEvents) + 1
               /\ obs'.toolResult.success
               /\ \E i \in RulesForCall :
                      LET rule == cfg.transfer_to_number[i]
                          ev == obs'.transferEvents[Len(obs'.transferEvents)] IN
                      /\ obs'.transferEvents = Append(obs.transferEvents, ev)
                      /\ ev.phone_number = obs'.toolArgs.phone_number
                      /\ ev.transfer_type = (IF rule.transfer_type \in {"undefined", ""}
                                             THEN "conference" ELSE rule.transfer_type)
                      /\ ev.transfer_message = rule.transfer_message
                      /\ ev.enable_client_message = rule.enable_client_message
          ELSE /\ obs'.transferEvents = obs.transferEvents
               /\ ~obs'.toolResult.success]_vars

\* C20 witness: after a call with a number that has no rule, a call with the
\* number of the second of two rules, which names no transfer_type, has
\* emitted one event of type conference and started the transfer.
C20_Witness ==
    /\ obs.nToolCalls = 2
    /\ Len(cfg.transfer_to_number) = 2
    /\ cfg.transfer_to_number[1].phone_number # obs.toolArgs.phone_number
    /\ cfg.transfer_to_number[2].phone_number = obs.toolArgs.phone_number
    /\ cfg.transfer_to_number[2].transfer_type = "undefined"
    /\ Len(obs.transferEvents) = 1
    /\ obs.transferEvents[1].transfer_type = "conference"
    /\ obs.toolResult.success
    /\ obs.nTransfers = 1

\* ------------------------------------------- outbound frames (SpecFrames)
\* The bytes of a synthesis stream are numbered from 1 in stream order, and
\* sample k of the stream is the byte pair (2k-1, 2k). A chunk is a range
\* [lo, hi] of stream bytes, and a buffer a sequence of ranges.
TWILIO_FRAME == 320

Size(r) == r.hi - r.lo + 1

RECURSIVE BufLen(_)
BufLen(b) == IF b = <<>> THEN 0 ELSE Size(Head(b)) + BufLen(Tail(b))

\* The stream byte at offset k (from 1) of a buffer.
RECURSIVE ByteAt(_, _)
ByteAt(b, k) ==
    IF k <= Size(Head(b)) THEN Head(b).lo + k - 1 ELSE ByteAt(Tail(b), k - Size(Head(b)))

\* readInt16LE on two bytes: the stream's sample when they are its byte pair,
\* 0 for any other pair.
SampleOf(x, y) == IF y = x + 1 /\ x % 2 = 1 THEN y \div 2 ELSE 0

\* pcm16ToTwilioMulaw, taking every other 16-bit sample of the buffer.
Pcm16ToTwilioMulawHalved(b) ==
    [k \in 1..((BufLen(b) \div 2 + 1) \div 2) |->
        SampleOf(ByteAt(b, 4 * k - 3), ByteAt(b, 4 * k - 2))]

\* pcm16ToTwilioMulaw: one mu-law byte per 16-bit sample read at the even
\* offsets of the buffer (length >> 1 of them, a trailing odd byte is not
\* read), named here by the sample it encodes.
Pcm16ToTwilioMulaw(b) ==
    [k \in 1..(BufLen(b) \div 2) |-> SampleOf(ByteAt(b, 2 * k - 1), ByteAt(b, 2 * k))]

\* The inner loop of flushFrames: need bytes are moved from the head of the
\* chunk list into the frame, a chunk longer than the need being split.
RECURSIVE TakeBytes(_, _)
TakeBytes(chunks, need) ==
    IF need = 0
    THEN [frame |-> <<>>, chunks |-> chunks]
    ELSE LET head == Head(chunks) IN
         IF Size(head) <= need
         THEN LET r == TakeBytes(Tail(chunks), need - Size(head)) IN
              [frame |-> <<head>> \o r.frame, chunks |-> r.chunks]
         ELSE [frame |-> <<[lo |-> head.lo, hi |-> head.lo + need - 1]>>,
               chunks |-> <<[lo |-> head.lo + need, hi |-> head.hi]>> \o Tail(chunks)]

\* A media event with its payload goes to the telephony socket.
SendFrame(w, i, payload) ==
    IF w.net.wsState = "open"
    THEN [SendMedia(w, i) EXCEPT !.obs.frames = Append(@, payload)]
    ELSE w

\* flushFrames: while a whole frame is buffered, it is cut, encoded and sent.
RECURSIVE FlushFrames(_, _)
FlushFrames(w, i) ==
    IF w.proc.stream.totalBytes < TWILIO_FRAME
    THEN w
    ELSE LET r == TakeBytes(w.proc.stream.chunks, TWILIO_FRAME) IN
         FlushFrames(SendFrame([w EXCEPT !.proc.stream.chunks = r.chunks,
                                         !.proc.stream.totalBytes = @ - TWILIO_FRAME],
                               i, Pcm16ToTwilioMulaw(r.frame)), i)

\* The chunk list and the counters are locals of one speakToTwilio call: the
\* stream of utterance i starts with them empty. The bytes of one stream at a
\* time are followed.
StreamOf(w, i) ==
    IF w.proc.stream.of = i
    THEN w
    ELSE [w EXCEPT !.proc.stream = [of |-> i, chunks |-> <<>>, totalBytes |-> 0, bytesReceived |-> 0],
                   !.obs.frames = <<>>, !.obs.markAt = -1]

Followed(i) ==
    IF proc.stream.of \in {0, i} THEN TRUE ELSE proc.utter[proc.stream.of].st # "stream"

\* The 'data' listener of the TTS stream for a chunk of n bytes.
StreamData(i, n) ==
    /\ proc.utter[i].st = "stream"
    /\ Followed(i)
    /\ proc.utter[i].chunks < lim.chunks
    /\ StreamOf(World, i).proc.stream.bytesReceived + n <= lim.bytes
    /\ Becomes(IF DataAborts(World)
               THEN SpeakReturn(World, i)
               ELSE LET lo == StreamOf(World, i).proc.stream.bytesReceived + 1 IN
                    FlushFrames([StreamOf(World, i) EXCEPT
                                    !.proc.utter[i].chunks = @ + 1,
                                    !.proc.stream.bytesReceived = @ + n,
                                    !.proc.stream.chunks = Append(@, [lo |-> lo, hi |-> lo + n - 1]),
                                    !.proc.stream.totalBytes = @ + n], i))

\* The 'end' listener of the TTS stream: the bytes left in the chunk list are
\* joined (the list is emptied, the total is left as it is) and, when they
\* are 2 or more, encoded and sent as one frame; then the mark is sent and
\* speakToTwilio returns.
StreamEnd(i) ==
    /\ proc.utter[i].st = "stream"
    /\ Followed(i)
    /\ LET w0 == StreamOf(World, i)
           remainder == w0.proc.stream.chunks
           w1 == IF w0.proc.stream.totalBytes > 0
                 THEN [w0 EXCEPT !.proc.stream.chunks = <<>>]
                 ELSE w0
           w2 == IF BufLen(remainder) >= 2
                 THEN SendFrame(w1, i, Pcm16ToTwilioMulaw(remainder))
                 ELSE w1 IN
       Becomes(SpeakReturn(SendMark(w2), i))

\* bytes of one synthesis stream
FrameBytes == 645
\* data events of one synthesis stream
FrameChunks == 4
\* texts handed to the synthesis path
FrameUtter == 1

FrameSizes == {1, 2, 3, 161, 318, 320, 321, 640}

FrameLim ==
    [webhooks |-> 0, endCalls |-> 0, transfers |-> 0,
     calls |-> 0, utter |-> FrameUtter, chunks |-> FrameChunks, bytes |-> FrameBytes,
     responses |-> 0, batches |-> 0, queue |-> 0, frames |-> {},
     tools |-> {}, docs |-> {}]

FrameCfgs ==
    [first_message : {TRUE}, enable_filler_phrases : {FALSE},
     transfer_configured : {FALSE}, transfer_message : {FALSE}]

InitFrames == InitWith(FrameLim, FrameCfgs)

NextFrames ==
    \/ InitPipeline
    \/ ConnectOk
    \/ \E i \in DOMAIN proc.utter, ok \in BOOLEAN : TtsResponse(i, ok)
    \/ \E i \in DOMAIN proc.utter, n \in FrameSizes : StreamData(i, n)
    \/ \E i \in DOMAIN proc.utter : StreamEnd(i)
    \/ \E i \in DOMAIN proc.utter : TtsStall(i)
    \/ MarkEcho

SpecFrames == InitFrames /\ [][NextFrames]_vars

\* The samples lo..hi of the stream, in order.
Samples(lo, hi) == [k \in 1..(hi - lo + 1) |-> lo + k - 1]

\* The whole frames of the first n bytes of the stream.
WholeFrames(n) ==
    [f \in 1..(n \div TWILIO_FRAME) |->
        Samples((f - 1) * (TWILIO_FRAME \div 2) + 1, f * (TWILIO_FRAME \div 2))]

\* The frames of a stream of n bytes read to its end: the whole frames, then
\* the samples of a remainder of 2 bytes or more.
AllFrames(n) ==
    WholeFrames(n) \o
        (IF n % TWILIO_FRAME >= 2
         THEN <<Samples((n \div TWILIO_FRAME) * (TWILIO_FRAME \div 2) + 1, n \div 2)>>
         ELSE <<>>)

\* C21: while a stream is read, the running total equals the bytes of the
\* chunk list and the whole frames of the bytes received so far have been
\* sent, 160 samples each, in stream order, whatever the chunking; the 'end'
\* event adds the samples of a remainder of 2 bytes or more as one shorter
\* frame, then sends exactly one mark, and the synthesis is over.
C21_FramesThenRemainderThenMark ==
    /\ [](\A i \in DOMAIN proc.utter :
              proc.utter[i].st = "stream" /\ proc.stream.of = i =>
                  /\ proc.stream.totalBytes = BufLen(proc.stream.chunks)
                  /\ obs.frames = WholeFrames(proc.stream.bytesReceived))
    /\ [][\A i \in DOMAIN proc.utter : StreamEnd(i) =>
              /\ obs'.frames = AllFrames(proc'.stream.bytesReceived)
              /\ net'.marks = net.marks + 1
              /\ obs'.markAt = Len(obs'.frames)
              /\ proc'.utter[i].st = "done"]_vars

\* A stream of an odd number of bytes, cut in chunks of odd sizes, has ended
\* after a whole frame and a shorter one.
C21_Witness ==
    /\ proc.stream.of \in DOMAIN proc.utter
    /\ proc.utter[proc.stream.of].st = "done"
    /\ proc.stream.bytesReceived % 2 = 1
    /\ Len(obs.frames) = 2
    /\ Len(obs.frames[1]) = TWILIO_FRAME \div 2
    /\ Len(obs.frames[2]) \in 1..(TWILIO_FRAME \div 2 - 1)
    /\ net.marks = 1
    /\ obs.markAt = 2

\* ------------------------------------------- sentence chunker (SpecChunk)
\* A text is a sequence of characters.
Upper == {"M", "D"}
Lower == {"r", "e", "g", "o", "k"}
Digit == {"3", "1", "4"}
Punct == {".", "?"}
Space == {" "}

\* A naive boundary test, without the lookbehind.
NoLookbehind(text, p) == FALSE

\* The lookbehind of SENTENCE_RE at position p: the characters before p end
\* in a capital letter followed by up to three lower-case letters, or in a
\* digit.
Lookbehind(text, p) ==
    \/ p > 1 /\ text[p - 1] \in Digit
    \/ \E k \in 0..3 :
          /\ p - 1 - k >= 1
          /\ text[p - 1 - k] \in Upper
          /\ \A j \in (p - k)..(p - 1) : text[j] \in Lower

\* SENTENCE_RE matches with its punctuation starting at position p: a run of
\* . ! ? not preceded by what the lookbehind excludes and followed by white
\* space or the end of the text.
MatchAt(text, p) ==
    /\ text[p] \in Punct
    /\ ~Lookbehind(text, p)
    /\ \E q \in p..Len(text) :
          /\ \A j \in p..q : text[j] \in Punct
          /\ q = Len(text) \/ text[q + 1] \in Space

\* SENTENCE_RE.test(text)
SENTENCE_RE(text) == \E p \in 1..Len(text) : MatchAt(text, p)

\* String.prototype.trim
RECURSIVE Trim(_)
Trim(text) ==
    IF text = <<>> THEN text
    ELSE IF Head(text) \in Space THEN Trim(Tail(text))
    ELSE IF text[Len(text)] \in Space THEN Trim(SubSeq(text, 1, Len(text) - 1))
    ELSE text

\* A response.text.delta event with the characters of its token: the token
\* is appended to the buffer, and the buffer is flushed as a sentence when
\* SENTENCE_RE matches it. obs.text is the buffer's text and obs.flushed the
\* sentence this event has flushed.
TextToken(token) ==
    LET buffer == obs.text \o token
        boundary == SENTENCE_RE(buffer) IN
    /\ Listening(World)
    /\ client.ws = "open"
    /\ Len(buffer) <= lim.text
    /\ boundary /\ ~CallOver(World) => CanAddUtter(World)
    /\ Becomes([OnTextDelta(World, boundary) EXCEPT
                   !.obs.text = IF CallOver(World) THEN @ ELSE IF boundary THEN <<>> ELSE buffer,
                   !.obs.flushed = IF boundary /\ ~CallOver(World) THEN Trim(buffer) ELSE <<>>])

\* A response.text.done event: the remainder of the buffer is enqueued.
TextEnd ==
    /\ Listening(World)
    /\ client.ws = "open"
    /\ session.ttsBuffer # "" /\ ~CallOver(World) => CanAddUtter(World)
    /\ Becomes([OnTextDone(World) EXCEPT
                   !.obs.text = IF CallOver(World) THEN @ ELSE <<>>,
                   !.obs.flushed = <<>>])

\* characters of the text buffer
ChunkText == 7
\* sentences flushed to the synthesis path
ChunkUtter == 2

Tokens ==
    { <<"M", "r">>, <<"D", "r">>, <<"e", ".">>, <<"g", ".">>, <<"3">>, <<".", "1">>,
      <<"1", "4">>, <<"o", "k">>, <<".">>, <<"?">>, <<" ">> }

ChunkLim ==
    [webhooks |-> 0, endCalls |-> 0, transfers |-> 0,
     calls |-> 0, utter |-> ChunkUtter, chunks |-> 0, text |-> ChunkText,
     responses |-> 0, batches |-> 0, queue |-> 0, frames |-> {},
     tools |-> {}, docs |-> {}]

ChunkCfgs ==
    [first_message : {FALSE}, enable_filler_phrases : {FALSE},
     transfer_configured : {FALSE}, transfer_message : {FALSE}]

InitChunk == InitWith(ChunkLim, ChunkCfgs)

NextChunk ==
    \/ InitPipeline
    \/ ConnectOk
    \/ \E token \in Tokens : TextToken(token)
    \/ TextEnd

SpecChunk == InitChunk /\ [][NextChunk]_vars

\* The text ends with the characters of tail.
EndsWith(text, tail) ==
    /\ Len(text) >= Len(tail)
    /\ SubSeq(text, Len(text) - Len(tail) + 1, Len(text)) = tail

\* The text ends in Mr., in Dr. or in the integer part of a decimal with its
\* point.
EndsInCapitalOrDecimal(text) ==
    \/ EndsWith(text, <<"M", "r", ".">>)
    \/ EndsWith(text, <<"D", "r", ".">>)
    \/ EndsWith(text, <<"3", ".">>)

CLIP == 32635
BIAS == 132

RECURSIVE Pow2(_)
Pow2(n) == IF n = 0 THEN 1 ELSE 2 * Pow2(n - 1)

EXP_LUT == <<0, 132, 396, 924, 1980, 4092, 8316, 16764>>

\* The earlier decode formula, ((mant << 1) + 33) << exp - 33.
MulawDecodeShifted(i) ==
    LET byte == 255 - i
        exp == (byte \div 16) % 8
        mant == byte % 16
        sample == (2 * mant + 33) * Pow2(exp) - 33 IN
    IF byte >= 128 THEN -sample ELSE sample

\* MULAW_DECODE[i]: the entry buildMulawDecodeTable computes for byte i.
MulawDecode(i) ==
    LET byte == 255 - i
        exp == (byte \div 16) % 8
        mant == byte % 16
        sample == EXP_LUT[exp + 1] + mant * Pow2(exp + 3) IN
    IF byte >= 128 THEN -sample ELSE sample

\* The linear scan of mulawEncode for the highest set bit of the sample.
RECURSIVE HighBit(_, _, _)
HighBit(sample, exp, mask) ==
    IF (sample \div mask) % 2 = 0 /\ exp > 0
    THEN HighBit(sample, exp - 1, mask \div 2)
    ELSE exp

\* mulawEncode
MulawEncode(s) ==
    LET sign == IF s < 0 THEN 128 ELSE 0
        abs == IF s < 0 THEN -s ELSE s
        sample == (IF abs > CLIP THEN CLIP ELSE abs) + BIAS
        exp == HighBit(sample, 7, 16384)
        mant == (sample \div Pow2(exp + 3)) % 16 IN
    255 - (sign + exp * 16 + mant)

\* A 16-bit sample is encoded for the telephony socket.
Encode ==
    /\ obs.codec.pc = "sample"
    /\ Becomes([World EXCEPT !.obs.codec.pc = "byte",
                             !.obs.codec.byte = MulawEncode(obs.codec.sample)])

\* The byte is decoded as a byte of the telephony socket is.
Decode ==
    /\ obs.codec.pc = "byte"
    /\ Becomes([World EXCEPT !.obs.codec.pc = "pcm",
                             !.obs.codec.decoded = MulawDecode(obs.codec.byte)])

MulawLim ==
    [webhooks |-> 0, endCalls |-> 0, transfers |-> 0,
     calls |-> 0, utter |-> 0, chunks |-> 0, responses |-> 0, batches |-> 0,
     queue |-> 0, frames |-> {}, tools |-> {}, docs |-> {}]

\* Every value readInt16LE can give.
Pcm16 == (-32768)..32767

InitMulaw ==
    /\ lim = MulawLim
    /\ cfg \in ChunkCfgs
    /\ session = NewSession
    /\ sessions = {CallSid}
    /\ client = NewClient(MulawLim)
    /\ proc = NewProc(MulawLim)
    /\ net = NewNet(MulawLim)
    /\ \E s \in Pcm16 :
           obs = [NoHistory EXCEPT !.codec = [pc |-> "sample", sample |-> s, byte |-> 0, decoded |-> 0]]

NextMulaw == Encode \/ Decode

SpecMulaw == InitMulaw /\ [][NextMulaw]_vars

\* The sample of a finished round trip and what it has become.
RoundTrip(P(_, _)) ==
    obs.codec.pc = "pcm" /\ Abs(obs.codec.sample) <= CLIP =>
        P(obs.codec.sample, obs.codec.decoded)

SameSign(s, d) == (s > 0 => d > 0) /\ (s < 0 => d < 0)

Within23(s, d) == SameSign(s, d) /\ 1000 * Abs(d - s) <= 23 * Abs(s)

NotOpposite(s, d) == (s > 0 => d >= 0) /\ (s < 0 => d <= 0)

Within4(s, d) ==
    /\ NotOpposite(s, d)
    /\ Abs(s) > 3 => SameSign(s, d)
    /\ Abs(s) >= 396 => 100 * Abs(d - s) <= 4 * Abs(s)
    /\ Abs(s) < 396 => Abs(d - s) <= 16

C24_PreRollRing ==
    /\ [](/\ Len(session.preRollBuffer) <= PRE_ROLL_BATCHES
          /\ \A k \in 1..Len(session.preRollBuffer) :
                session.preRollBuffer[k] = obs.nBatches - Len(session.preRollBuffer) + k)
    /\ [][obs'.nBatches = obs.nBatches + 1 =>
             session'.preRollBuffer =
                 IF Len(session.preRollBuffer) = PRE_ROLL_BATCHES
                 THEN Tail(session.preRollBuffer) \o <<obs'.nBatches>>
                 ELSE session.preRollBuffer \o <<obs'.nBatches>>]_vars

\* A third batch has been pushed on a full ring.
C24_Witness ==
    /\ obs.nBatches >= 3
    /\ session.preRollBuffer = <<obs.nBatches - 1, obs.nBatches>>

\* C25: a stream that has sent frames is given up by its 'data' listener only
\* when the call is ending or ended or an interrupt has run since its
\* sentence was enqueued; the echo of an earlier sentence's mark is no such
\* case.
C25_StreamCutOnlyByInterruptOrEnd ==
    [][\A i \in DOMAIN proc.utter :
          /\ proc.utter[i].st = "stream"
          /\ \E k \in DOMAIN obs.media : obs.media[k] = i
          /\ DataAborts(World)
          /\ \E frames \in BOOLEAN : TtsData(i, frames)
          => CallOver(World) \/ Outdated(World, i)]_vars

\* sentences of one reply
MarkUtter == 2
\* data events of one synthesis stream
MarkChunks == 2
\* audio batches of the caller
MarkBatches == 1

MarkLim ==
    [webhooks |-> 0, endCalls |-> 0, transfers |-> 0,
     calls |-> 0, utter |-> MarkUtter, chunks |-> MarkChunks, responses |-> 0,
     batches |-> MarkBatches, queue |-> 0, frames |-> {TRUE},
     tools |-> {}, docs |-> {}]

MarkCfgs ==
    [first_message : {FALSE}, enable_filler_phrases : {FALSE},
     transfer_configured : {FALSE}, transfer_message : {FALSE}]

InitMark == InitWith(MarkLim, MarkCfgs)

SpecMark == InitMark /\ [][NextTts]_vars

\* sentences handed to the synthesis path
QuietUtter == 2
\* data events of one synthesis stream
QuietChunks == 1

QuietLim ==
    [webhooks |-> 0, endCalls |-> 0, transfers |-> 0,
     calls |-> 0, utter |-> QuietUtter, chunks |-> QuietChunks, responses |-> 0,
     batches |-> 0, queue |-> 0, frames |-> {},
     tools |-> {}, docs |-> {}]

InitQuiet == InitWith(QuietLim, MarkCfgs)

\* A call whose caller sends no audio.
NextQuiet ==
    \/ InitPipeline
    \/ ConnectOk
    \/ \E boundary \in BOOLEAN : TextDelta(boundary)
    \/ TextDone
    \/ TtsStep

\* Every TTS request settles (15 s timeout), every stream ends, fails or
\* stalls (10 s idle timer), and the provider echoes every mark.
SpecQuiet ==
    /\ InitQuiet
    /\ [][NextQuiet]_vars
    /\ WF_vars(TtsStep)
    /\ WF_vars(MarkEcho)

\* A synthesis has ended in an active call and none is queued or running.
SynthesisOver ==
    /\ session.status = "active"
    /\ \E i \in DOMAIN proc.utter : proc.utter[i].st = "done"
    /\ \A i \in DOMAIN proc.utter : proc.utter[i].st \in {"none", "done"}

C27_SpeechBufferInArrivalOrder ==
    \A j, k \in DOMAIN session.speechBuffer :
        j < k /\ session.speechBuffer[k] < session.speechBuffer[j] =>
            \E m \in 1..(j - 1) : session.speechBuffer[m] = session.speechBuffer[k]

\* The number of copies of batch b in a buffer.
RECURSIVE Copies(_, _)
Copies(buf, b) ==
    IF buf = <<>> THEN 0
    ELSE (IF Head(buf) = b THEN 1 ELSE 0) + Copies(Tail(buf), b)

\* C28: the audio prepended at the speech_start of a new turn does not hold
\* the batch that triggered it: that batch is in the speech buffer once.
C28_TriggerBatchOnce ==
    [][/\ SpeechStartBranch
       /\ ~session.isSpeaking
       /\ ~session.awaitingTurnConfirmation
       /\ session'.speechBuffer # <<>>
       => Copies(session'.speechBuffer, proc.vad.batch) = 1]_vars

\* C29: when the turn check answers INCOMPLETE, the turn's audio is back in
\* the speech buffer, awaitingTurnConfirmation is true, turnSilenceMs is 0,
\* and whatever the parallel STT gave, the transcript gets no entry, the LLM
\* no message, and no other STT request is made.
C29_IncompleteHoldsTurn ==
    [][\A stt \in SttOutcomes :
          TurnDone(FALSE, stt) =>
              /\ proc.vad.audio # <<>>
              /\ session'.speechBuffer = session.speechBuffer \o proc.vad.audio
              /\ session'.awaitingTurnConfirmation
              /\ session'.turnSilenceMs = 0
              /\ obs'.lastTurn.entries = 0
              /\ obs'.lastTurn.msgs = 0
              /\ obs'.sttOutstanding = 0
              /\ proc'.vad.pc = "idle"]_vars

\* An INCOMPLETE answer has come and the turn's audio is held in the speech
\* buffer.
C29_Witness ==
    /\ obs.lastTurn.end = "held"
    /\ session.awaitingTurnConfirmation
    /\ session.speechBuffer # <<>>
    /\ proc.vad.pc = "idle"

\* C30: when the turn check answers COMPLETE, awaitingTurnConfirmation is
\* cleared; a parallel STT text makes one transcript entry and one user
\* message (none when the LLM socket is closed) and the silence timer is
\* restarted; an empty one makes none and the timer is restarted; a failed
\* one starts exactly one sequential STT request, whose text, if any, makes
\* the one entry and message, after which the timer is restarted.
C30_CompleteSendsOnce ==
    /\ [](obs.lastTurn.entries <= 1 /\ obs.lastTurn.msgs <= 1)
    /\ [][\A stt \in SttOutcomes :
             TurnDone(TRUE, stt) =>
                 /\ ~session'.awaitingTurnConfirmation
                 /\ obs'.lastTurn.entries = (IF stt = "text" THEN 1 ELSE 0)
                 /\ obs'.lastTurn.msgs = (IF stt = "text" /\ client.isConnected THEN 1 ELSE 0)
                 /\ IF stt = "fail"
                    THEN proc'.vad.pc = "stt" /\ obs'.sttOutstanding = 1
                    ELSE /\ proc'.vad.pc = "idle"
                         /\ obs'.sttOutstanding = 0
                         /\ session'.silenceTimer]_vars
    /\ [][\A outcome \in SttOutcomes :
             SttDone(outcome) /\ proc.vad.after = "retry" =>
                 /\ obs.lastTurn.entries = 0
                 /\ obs'.lastTurn.entries = (IF outcome = "text" THEN 1 ELSE 0)
                 /\ obs'.lastTurn.msgs = (IF outcome = "text" /\ client.isConnected THEN 1 ELSE 0)
                 /\ obs'.sttOutstanding = 0
                 /\ proc'.vad.pc = "idle"
                 /\ session'.silenceTimer]_vars

\* A COMPLETE turn has made its transcript entry and its user message, and
\* the silence timer is armed.
C30_Witness ==
    /\ obs.lastTurn.end = "complete"
    /\ obs.lastTurn.stt = "text"
    /\ obs.lastTurn.entries = 1
    /\ obs.lastTurn.msgs = 1
    /\ proc.vad.pc = "idle"
    /\ session.silenceTimer

\* ---------------------------------------- smart-turn fallback (SpecFallback)
\* audio batches of the caller
FallbackBatches == 17

FallbackLim ==
    [webhooks |-> 0, endCalls |-> 0, transfers |-> 0,
     calls |-> 0, utter |-> 0, chunks |-> 0, responses |-> 0,
     batches |-> FallbackBatches, queue |-> 0, frames |-> {TRUE},
     tools |-> {}, docs |-> {}]

InitFallback == InitWith(FallbackLim, AudioCfgs)

\* replies of the VAD other than silence: the caller speaks during the first
\* batches only
FallbackSpeech == 4

\* A VAD reply for a caller who is silent after the first batches.
FallbackReply(event, short) ==
    /\ event # "silence" => proc.vad.batch <= FallbackSpeech
    /\ VadReply(event, FALSE, FALSE, short)

\* A frame of a caller whose requests are answered before the next frame.
FallbackFrame(loud) ==
    /\ proc.vad.pc = "idle"
    /\ MediaFrame(loud)

NextFallback ==
    \/ InitPipeline
    \/ ConnectOk
    \/ \E loud \in lim.frames : FallbackFrame(loud)
    \/ \E e \in VadEvents, short \in BOOLEAN : FallbackReply(e, short)
    \/ \E complete \in BOOLEAN, stt \in SttOutcomes : TurnDone(complete, stt)
    \/ \E outcome \in SttOutcomes : SttDone(outcome)

SpecFallback == InitFallback /\ [][NextFallback]_vars

\* The step is the VAD reply handler with the given event.
Replies(event) == \E short \in BOOLEAN : FallbackReply(event, short)

\* C31: while awaitingTurnConfirmation is true, a silence reply adds 200 ms
\* to turnSilenceMs and a speech_start reply sets it to 0; the silence reply
\* that brings it to 3000 ms clears the flag and the counter, flushes the held
\* buffer into one STT request, and the silence timer is restarted when the
\* handler ends; no step other than a silence reply fires the fallback.
C31_SilenceAccumulator ==
    /\ [](session.turnSilenceMs \in {200 * n : n \in 0..14})
    /\ [][session.awaitingTurnConfirmation /\ Replies("silence") =>
             IF session.turnSilenceMs + 200 < SMART_TURN_STOP_MS
             THEN /\ session'.turnSilenceMs = session.turnSilenceMs + 200
                  /\ session'.awaitingTurnConfirmation
                  /\ session'.speechBuffer = session.speechBuffer
             ELSE /\ session'.turnSilenceMs = 0
                  /\ ~session'.awaitingTurnConfirmation
                  /\ session'.speechBuffer = <<>>
                  /\ obs'.lastTurn.end = "fallback"
                  /\ IF session.speechBuffer # <<>>
                     THEN /\ proc'.vad.pc = "stt"
                          /\ proc'.vad.audio = session.speechBuffer
                          /\ obs'.sttOutstanding = 1
                     ELSE session'.silenceTimer]_vars
    /\ [][session.awaitingTurnConfirmation /\ Replies("speech_start") =>
             session'.turnSilenceMs = 0 /\ session'.awaitingTurnConfirmation]_vars
    /\ [][\A outcome \in SttOutcomes :
             SttDone(outcome) /\ proc.vad.after = "fallback" => session'.silenceTimer]_vars
    /\ [][obs'.lastTurn.end = "fallback" /\ obs.lastTurn.end # "fallback" =>
             Replies("silence") /\ session.turnSilenceMs = SMART_TURN_STOP_MS - 200]_vars

\* The fallback has fired after 15 silence replies, its STT request has given
\* a text, and the silence timer is armed.
C31_Witness ==
    /\ obs.lastTurn.end = "fallback"
    /\ obs.lastTurn.stt = "text"
    /\ obs.lastTurn.entries = 1
    /\ ~session.awaitingTurnConfirmation
    /\ session.silenceTimer
    /\ proc.vad.pc = "idle"

\* The audio the batch of the reply has gone to: the speech buffer, or the
\* request of the transcription when the reply flushed the buffer.
BatchHeldIn(s, p) == IF p.vad.pc = "stt" THEN p.vad.audio ELSE s.speechBuffer

\* C32: a VAD reply handled for an active session while the AI speaks and with
\* a probability of at least FAST_INTERRUPT_PROB invokes interruptAI once and
\* leaves the fast-interrupt counter at 0, and the event of the same reply
\* still goes through the state machine: a speech_start counts, starts or
\* extends the user turn, and its batch ends the buffered audio. A reply with
\* a lower probability or with the AI silent leaves the counter at 0 and
\* interrupts only by the threshold of the speech_start branch.
C32_FastInterruptThenStateMachine ==
    [][\A e \in VadEvents, high, long, short \in BOOLEAN :
          VadReply(e, high, long, short) /\ session.status = "active" =>
              /\ session'.fastInterruptCount = 0
              /\ obs'.lastReply.event = e
              /\ IF high
                 THEN /\ obs'.nInterrupts = obs.nInterrupts + 1
                      /\ ~session'.isAISpeaking
                      /\ e = "speech_start" =>
                            /\ BatchHeldIn(session', proc') # <<>>
                            /\ BatchHeldIn(session', proc')[Len(BatchHeldIn(session', proc'))] = proc.vad.batch
                            /\ IF proc'.vad.pc = "stt"
                               THEN session'.speechStartCount = 0
                               ELSE /\ session'.isSpeaking
                                    /\ session'.speechStartCount = session.speechStartCount + 1
                 ELSE obs'.nInterrupts # obs.nInterrupts =>
                          /\ e = "speech_start"
                          /\ session.isAISpeaking
                          /\ session.speechStartCount + 1 >= INTERRUPT_THRESHOLD]_vars

\* A silence reply has cut the AI off: no speech_start was ever counted.
C32_Witness ==
    /\ obs.nInterrupts = 1
    /\ obs.lastReply.event = "silence"
    /\ obs.turn.started = 0
    /\ session.fastInterruptCount = 0
    /\ ~session.isAISpeaking

\* ------------------------------------------- VAD in-flight guard (SpecGuard)
\* A call with inbound audio that may end while a VAD request or one of the
\* requests of the reply handler is in flight: the telephony socket closes or
\* the silence timer expires.
\* inbound batches
GuardBatches == 3
\* invocations of endCall
GuardEndCalls == 1

GuardLim ==
    [webhooks |-> 0, endCalls |-> GuardEndCalls, transfers |-> 0,
     calls |-> 0, utter |-> 0, chunks |-> 0, responses |-> 0,
     batches |-> GuardBatches, queue |-> 0, frames |-> BOOLEAN,
     tools |-> {}, docs |-> {}]

InitGuard == InitWith(GuardLim, AudioCfgs)

\* A frame for a session that is active (one for a session that is not is
\* dropped by handleIncomingAudio at once).
GuardFrame(loud) ==
    /\ session.status = "active"
    /\ MediaFrame(loud)

NextGuard ==
    \/ InitPipeline
    \/ ConnectOk
    \/ \E loud \in lim.frames : GuardFrame(loud)
    \/ \E e \in VadEvents, high, long, short \in BOOLEAN : VadReply(e, high, long, short)
    \/ VadFail
    \/ \E complete \in BOOLEAN, stt \in SttOutcomes : TurnDone(complete, stt)
    \/ \E outcome \in SttOutcomes : SttDone(outcome)
    \/ WsClose
    \/ SilenceTimeout
    \/ TeardownStep

\* Every request of the audio path settles: detectVAD has a timeout of 2 s,
\* transcribe one of 20 s, and the turn check answers.
SpecGuard ==
    /\ InitGuard
    /\ [][NextGuard]_vars
    /\ WF_vars(VadFail)
    /\ WF_vars(\E complete \in BOOLEAN, stt \in SttOutcomes : TurnDone(complete, stt))
    /\ WF_vars(\E outcome \in SttOutcomes : SttDone(outcome))

\* C33: every VAD request releases the in-flight guard in the end: vadInFlight
\* is set exactly while a request or its reply handler is under way, it is
\* false again when the request has failed or timed out, when the handler has
\* returned early for a session that is not active and when the handler has
\* finished, and a guard that is set is always released later.
C33_GuardReleased ==
    /\ [](session.vadInFlight <=> proc.vad.pc # "idle")
    /\ [][VadFail => ~session'.vadInFlight]_vars
    /\ [][\A e \in VadEvents, high, long, short \in BOOLEAN :
             VadReply(e, high, long, short) /\ session.status # "active" =>
                 ~session'.vadInFlight]_vars
    /\ (session.vadInFlight ~> ~session.vadInFlight)

\* The reply of a VAD request has found the session ended and the handler has
\* returned early, the guard released.
C33_Witness ==
    /\ obs.lastReply.event = "inactive"
    /\ session.status = "ended"
    /\ ~session.vadInFlight
    /\ obs.vadOutstanding = 0

\* C34: the silence hangup timer is never armed while the user is speaking:
\* in no state are session.isSpeaking and the silence timer both set.
C34_NoSilenceTimerWhileUserSpeaks == ~(session.isSpeaking /\ session.silenceTimer)

\* ------------------------------------------------ late events (SpecLate)
\* A call whose caller sends no audio and which is ended by one of its
\* timers while the synthesis path may still be at work and marks may still
\* be on their way back.
\* invocations of endCall
LateEndCalls == 1

LateLim == [QuietLim EXCEPT !.endCalls = LateEndCalls]

InitLate == InitWith(LateLim, MarkCfgs)

NextLate ==
    \/ NextQuiet
    \/ SilenceTimeout
    \/ MaxDurationTimeout
    \/ TeardownStep

SpecLate == InitLate /\ [][NextLate]_vars

\* C35: once the status of the session is ended no timer of the session is
\* armed: in no state of an ended session is the silence timer or the
\* max-duration timer set.
C35_NoTimerAfterEnded ==
    session.status = "ended" => ~session.silenceTimer /\ ~session.maxDurationTimer

\* ------------------------------------------ session registry (SpecRegistry)
\* Several audio sockets, each with the CallSession object its connection
\* handler creates. Here the variables are indexed: session by object,
\* sessions (the Map of CallManager) from call identifier to object, proc by
\* object (where the object's cleanup stands). The call identifier of a
\* socket is the last segment of its URL: two sockets may carry the same one.
\* session objects
RegistryObjects == 2

Objects == 1..RegistryObjects

CallSids == {"CA1", "CA2"}

\* An object not yet constructed.
NoObject ==
    [callSid |-> "none", status |-> "none", silenceTimer |-> FALSE, maxDurationTimer |-> FALSE]

\* Map.set
MapSet(m, k, v) == [x \in DOMAIN m \cup {k} |-> IF x = k THEN v ELSE m[x]]

\* Map.delete
MapDelete(m, k) == [x \in DOMAIN m \ {k} |-> m[x]]

\* CallManager.create: the new object is stored under its call identifier,
\* whatever was stored there before.
Create(w, o, callSid) ==
    [w EXCEPT !.session[o] = [NoObject EXCEPT !.callSid = callSid, !.status = NewSession.status],
              !.sessions = MapSet(@, callSid, o)]

\* CallSession.end of the object o.
End(w, o) ==
    [w EXCEPT !.session[o].status = "ended",
              !.session[o].silenceTimer = FALSE,
              !.session[o].maxDurationTimer = FALSE]

\* CallManager.remove: the object stored under the identifier is ended and
\* the entry deleted.
Remove(w, callSid) ==
    IF callSid \in DOMAIN w.sessions
    THEN [End(w, w.sessions[callSid]) EXCEPT !.sessions = MapDelete(@, callSid)]
    ELSE w

\* The connection handler of a socket, its configuration fetched: the
\* session is created and initPipeline runs to its await of connect().
Accept(o, callSid) ==
    /\ session[o].status = "none"
    /\ Becomes([Create(World, o, callSid) EXCEPT !.session[o].status = "active",
                                                  !.proc[o] = "connect"])

\* connect() resolves: initPipeline starts both timers.
Ready(o) ==
    /\ proc[o] = "connect"
    /\ Becomes([World EXCEPT !.session[o].silenceTimer = TRUE,
                             !.session[o].maxDurationTimer = TRUE,
                             !.proc[o] = "ready"])

\* The socket of the object closes: cleanup up to its await of the VAD reset.
Closed(o) ==
    /\ proc[o] \in {"connect", "ready"}
    /\ session[o].status # "ended"
    /\ Becomes([End(World, o) EXCEPT !.proc[o] = "resetVAD"])

\* The VAD reset of the cleanup of o settles: the completion is posted.
ResetSettled(o) ==
    /\ proc[o] = "resetVAD"
    /\ Becomes([World EXCEPT !.proc[o] = "post"])

\* The completion POST of the cleanup of o settles: callManager.remove.
PostSettled(o) ==
    /\ proc[o] = "post"
    /\ Becomes([Remove(World, session[o].callSid) EXCEPT !.proc[o] = "done"])

InitRegistry ==
    /\ lim = LifeLim
    /\ cfg \in AudioCfgs
    /\ session = [o \in Objects |-> NoObject]
    /\ sessions = [x \in {} |-> 0]
    /\ client = NewClient(LifeLim)
    /\ proc = [o \in Objects |-> "idle"]
    /\ net = NewNet(LifeLim)
    /\ obs = NoHistory

NextRegistry ==
    \/ \E o \in Objects, callSid \in CallSids : Accept(o, callSid)
    \/ \E o \in Objects : Ready(o)
    \/ \E o \in Objects : Closed(o)
    \/ \E o \in Objects : ResetSettled(o)
    \/ \E o \in Objects : PostSettled(o)

SpecRegistry == InitRegistry /\ [][NextRegistry]_vars

\* The object is the one stored under its call identifier.
Registered(ss, s, o) ==
    /\ s[o].callSid \in DOMAIN ss
    /\ ss[s[o].callSid] = o

\* C36: a step of the cleanup of one session leaves every other session as it
\* was: its status and timers unchanged, and registered if it was registered.
C36_CleanupLeavesOthers ==
    [][\A o \in Objects :
          Closed(o) \/ ResetSettled(o) \/ PostSettled(o) =>
              \A other \in Objects \ {o} :
                  /\ session'[other] = session[other]
                  /\ Registered(sessions, session, other) =>
                         Registered(sessions', session', other)]_vars

\* ------------------------------------------ call transcript (SpecTranscript)
\* The transcript of one call with context summarization. Here session holds
\* the transcript (each entry its role, its number in the order of appending
\* and the number of words of its message), the tracked conversation items
\* and the summarization guard; proc is where summarizeContext stands; obs
\* keeps every entry ever appended and the transcript of the completion
\* payload; cfg is the context_summarization flag.
\* entries appended during the call
TranscriptEntries == 3
\* conversation items created by the LLM
TranscriptItems == 3

CONTEXT_SUMMARIZE_WORDS == 1500

\* Words of a message: a short one and a long one.
MessageWords == {10, 750}

Roles == {"user", "agent"}

\* The reduce of the item_created listener: the words of all messages.
RECURSIVE WordCount(_)
WordCount(transcript) ==
    IF transcript = <<>> THEN 0
    ELSE Head(transcript).words + WordCount(Tail(transcript))

\* session.transcript.push
TranscriptPush(w, role, words) ==
    LET entry == [role |-> role, n |-> Len(w.obs.appended) + 1, words |-> words] IN
    [w EXCEPT !.session.transcript = Append(@, entry),
              !.obs.appended = Append(@, entry)]

\* A user utterance is transcribed or an agent sentence reaches the head of
\* the sentence queue: the entry is pushed.
Said(role, words) ==
    /\ session.status = "active"
    /\ Len(obs.appended) < TranscriptEntries
    /\ Becomes(TranscriptPush(World, role, words))

\* summarizeContext up to its await of the chat completion.
SummarizeContext(w) ==
    IF w.session.summarizationInFlight
    THEN w
    ELSE [w EXCEPT !.session.summarizationInFlight = TRUE, !.proc = "summarize"]

\* The 'item_created' listener.
ItemCreated ==
    /\ session.status = "active"
    /\ obs.nItems < TranscriptItems
    /\ LET w1 == [World EXCEPT !.session.conversationItemIds = @ + 1,
                               !.obs.nItems = @ + 1] IN
       Becomes(IF cfg.context_summarization
                  /\ WordCount(w1.session.transcript) >= CONTEXT_SUMMARIZE_WORDS
               THEN SummarizeContext(w1)
               ELSE w1)

\* How the chat completion settles: a summary, an empty answer, a failure.
SummaryOutcomes == {"summary", "empty", "fail"}

\* The chat completion settles: with a summary the context is injected, the
\* tracked items are deleted and the local transcript is cleared.
SummaryDone(outcome) ==
    /\ proc = "summarize"
    /\ LET w1 == [World EXCEPT !.session.summarizationInFlight = FALSE, !.proc = "idle"] IN
       Becomes(IF outcome = "summary"
               THEN [w1 EXCEPT !.session.conversationItemIds = 0,
                               !.session.transcript = <<>>,
                               !.obs.nSummaries = @ + 1]
               ELSE w1)

\* The call ends: cleanup ends the session and postCallComplete posts the
\* payload with session.transcript.
CallComplete ==
    /\ session.status = "active"
    /\ Becomes([World EXCEPT !.session.status = "ended",
                             !.obs.payload = [posted |-> TRUE,
                                              transcript |-> session.transcript]])

InitTranscript ==
    /\ lim = LifeLim
    /\ cfg \in [context_summarization : BOOLEAN]
    /\ session = [status |-> "active", transcript |-> <<>>, conversationItemIds |-> 0,
                  summarizationInFlight |-> FALSE]
    /\ sessions = {CallSid}
    /\ client = NewClient(LifeLim)
    /\ proc = "idle"
    /\ net = NewNet(LifeLim)
    /\ obs = [appended |-> <<>>, nItems |-> 0, nSummaries |-> 0,
              payload |-> [posted |-> FALSE, transcript |-> <<>>]]

NextTranscript ==
    \/ \E role \in Roles, words \in MessageWords : Said(role, words)
    \/ ItemCreated
    \/ \E outcome \in SummaryOutcomes : SummaryDone(outcome)
    \/ CallComplete

SpecTranscript == InitTranscript /\ [][NextTranscript]_vars

ToolCalls == 2

PhoneNumbers == {"+1", "+2"}
AgentIds == {"a1", "a2"}
Languages == {"en", "es"}

BuiltIns == {"end_call", "transfer_to_number", "transfer_to_agent", "switch_language"}

\* buildTools: the names of the built-in tools pushed.
BuildTools(c) ==
    (IF c.is_end_call_enabled THEN {"end_call"} ELSE {})
    \cup (IF c.is_transfer_to_number /\ c.transfer_to_number # {}
          THEN {"transfer_to_number"} ELSE {})
    \cup (IF c.is_transfer_to_agent /\ c.transfer_to_agent # {}
          THEN {"transfer_to_agent"} ELSE {})
    \cup (IF c.language_detection THEN {"switch_language"} ELSE {})

\* The session event a built-in tool emits.
EventName(name) ==
    CASE name = "end_call" -> "end_call_requested"
      [] name = "switch_language" -> "language_switched"
      [] OTHER -> name

\* functions.execute for a built-in tool: the events it emits; arg is the
\* phone number, the agent id or the language of the arguments.
Emitted(c, name, arg) ==
    CASE name = "end_call" -> <<EventName(name)>>
      [] name = "transfer_to_number" ->
            IF arg \in c.transfer_to_number THEN <<EventName(name)>> ELSE <<>>
      [] name = "transfer_to_agent" ->
            IF arg \in c.transfer_to_agent THEN <<EventName(name)>> ELSE <<>>
      [] OTHER -> <<EventName(name)>>

\* The arguments the LLM may send with a call of the tool.
ArgsOf(name) ==
    CASE name = "transfer_to_number" -> PhoneNumbers
      [] name = "transfer_to_agent" -> AgentIds
      [] name = "switch_language" -> Languages
      [] OTHER -> {"completed"}

\* The 'function_call' event of the LLM names a built-in tool: execute runs.
BuiltInCall(name, arg) ==
    /\ obs.nToolCalls < ToolCalls
    /\ Becomes([World EXCEPT !.obs.nToolCalls = @ + 1,
                             !.obs.events = @ \o Emitted(cfg, name, arg),
                             !.obs.lastCall = name,
                             !.session.language =
                                 IF name = "switch_language" THEN arg ELSE @])

ToolCfgs ==
    [is_end_call_enabled : BOOLEAN,
     is_transfer_to_number : BOOLEAN, transfer_to_number : {{}, {"+1"}},
     is_transfer_to_agent : BOOLEAN, transfer_to_agent : {{}, {"a1"}},
     language_detection : BOOLEAN]

InitTools ==
    /\ lim = LifeLim
    /\ cfg \in ToolCfgs
    /\ session = [status |-> "active", language |-> "en"]
    /\ sessions = {CallSid}
    /\ client = NewClient(LifeLim)
    /\ proc = "idle"
    /\ net = NewNet(LifeLim)
    /\ obs = [offered |-> BuildTools(cfg), nToolCalls |-> 0, events |-> <<>>, lastCall |-> "none"]

NextTools == \E name \in BuiltIns : \E arg \in ArgsOf(name) : BuiltInCall(name, arg)

SpecTools == InitTools /\ [][NextTools]_vars

\* The flag of the built-in tool is enabled (and, for a transfer, its rule
\* list is not empty).
Enabled(c, name) ==
    CASE name = "end_call" -> c.is_end_call_enabled
      [] name = "transfer_to_number" -> c.is_transfer_to_number /\ c.transfer_to_number # {}
      [] name = "transfer_to_agent" -> c.is_transfer_to_agent /\ c.transfer_to_agent # {}
      [] OTHER -> c.language_detection

\* C38: each built-in tool is offered to the LLM exactly when its flag is
\* enabled (for a transfer, with a rule list that is not empty), and no
\* session event of a built-in tool whose flag is disabled is ever emitted.
C38_BuiltInsGatedByFlag ==
    /\ \A name \in BuiltIns : name \in obs.offered <=> Enabled(cfg, name)
    /\ \A name \in BuiltIns :
           ~Enabled(cfg, name) =>
               \A i \in DOMAIN obs.events : obs.events[i] # EventName(name)

\* ------------------------------------------------ session status (C39)
\* The hangup request of endCall settles, fulfilled or rejected.
SpecLifeFair ==
    /\ SpecLife
    /\ WF_vars(\E ok \in BOOLEAN : HangupDone(ok))

\* The place of a status in the order connecting, active, ending, ended.
StatusRank(status) ==
    CASE status = "connecting" -> 0
      [] status = "active" -> 1
      [] status = "ending" -> 2
      [] status = "ended" -> 3

\* C39: the status of the session only moves forward along connecting,
\* active, ending, ended: no step takes it to an earlier status, ended is
\* never left, and a session that is ending is ended later.
C39_StatusMovesForward ==
    /\ [](session.status \in {"connecting", "active", "ending", "ended"})
    /\ [][StatusRank(session'.status) >= StatusRank(session.status)]_vars
    /\ [][session.status = "ended" => session'.status = "ended"]_vars
    /\ (session.status = "ending" ~> session.status = "ended")

\* endCall has taken the session through ending to ended.
C39_Witness ==
    /\ session.status = "ended"
    /\ obs.nHangup = 1
    /\ proc.endCallPc = "done"

\* ------------------------------------------------- STT mute (SpecMute)
\* A caller who speaks while the agent speaks: one sentence of the agent and
\* two batches of the caller, enough for a speech_start and a speech_end.
\* sentences handed to the synthesis path
MuteUtter == 1
\* 200 ms batches of caller audio
MuteBatches == 2

MuteLim == [TtsLim EXCEPT !.utter = MuteUtter, !.batches = MuteBatches]

InitMute == InitWith(MuteLim, TtsCfgs)

SpecMute == InitMute /\ [][NextTts]_vars

\* C40: with INTERRUPT_THRESHOLD = 1, speechStartedDuringAI is false whenever
\* no VAD reply handler is in the middle of its synchronous part, that is in
\* every state, and no turn is ever discarded by the STT mute of the
\* speech_end branch.
C40_SttMuteNeverTaken ==
    /\ INTERRUPT_THRESHOLD = 1
    /\ ~session.speechStartedDuringAI
    /\ obs.lastTurn.end # "muted"

\* A turn that began while the agent spoke has interrupted it and has reached
\* its speech_end, which has let it through to the turn check.
C40_Witness ==
    /\ obs.nInterrupts >= 1
    /\ obs.lastReply.event = "speech_end"
    /\ ~obs.lastReply.short
    /\ proc.vad.pc = "turn"
    /\ ~session.speechStartedDuringAI

====
